---- MODULE Spec2Model ----
(***************************************************************************)
(* Waypoint: the content identity resolution engine.                       *)
(*                                                                         *)
(*   detectMediaType   (Signal Classifier)    src/src/lib/types.ts         *)
(*   extractProgress   (Progress Extractor)   src/src/lib/types.ts         *)
(*   searchMetadata    (Metadata Resolver)    src/src/lib/types.ts         *)
(*   extractTitle      (Title Extractor)      src/src/lib/types.ts         *)
(*   cleanTitle, normalizeTitle,                                           *)
(*   calculateTitleSimilarity                 src/src/lib/utils.ts         *)
(*                                                                         *)
(* A JavaScript string is modelled as a sequence of characters.  An ASCII  *)
(* character is the one-character string holding it; a character outside   *)
(* ASCII is the token "U+hhhh" of its UTF-16 code unit, so that Len is the *)
(* string's .length.  S("abc") is the sequence <<"a", "b", "c">>.          *)
(***************************************************************************)
EXTENDS Integers, Sequences, FiniteSets, TLC

VARIABLES
  pc,             \* position of the call in progress
  url,            \* argument url of detectMediaType / extractProgress
  title,          \* argument title; <<title1, title2>> for calculateTitleSimilarity
  pageContent,    \* argument pageContent of detectMediaType
  mediaType,      \* argument mediaType / type
  keywordScores,  \* detectMediaType: the local keywordScores, once totalled
  detected,       \* detectMediaType: its return value
  progress,       \* extractProgress: its return value
  cleanTitle,     \* searchMetadata: the local cleanTitle
  calls,          \* searchMetadata: the adapter calls made so far, in order
  response,       \* what the catalog asked last gave back
  result,         \* return value of a search adapter, of searchMetadata, of
                  \* extractTitle, of calculateTitleSimilarity; of cleanTitle, per call
  source,         \* argument source of getMetadataById
  store,          \* what chrome.storage.local holds under waypoint_store
  tasks           \* the calls of createWork / createWaypoint in progress

vars == <<pc, url, title, pageContent, mediaType, keywordScores, detected, progress,
          cleanTitle, calls, response, result, source, store, tasks>>

\* The value of a JavaScript expression that is null or undefined.
NoValue == "<none>"

-----------------------------------------------------------------------------
(* Strings *)

S(str) == [i \in 1..Len(str) |-> SubSeq(str, i, i)]

Range(seq) == {seq[i] : i \in DOMAIN seq}

RECURSIVE SumSeq(_)
SumSeq(seq) == IF seq = <<>> THEN 0 ELSE Head(seq) + SumSeq(Tail(seq))

RECURSIVE Concat(_)
Concat(seqs) == IF seqs = <<>> THEN <<>> ELSE Head(seqs) \o Concat(Tail(seqs))

\* seqs joined with sep between neighbours (Array.prototype.join).
RECURSIVE Join(_, _)
Join(seqs, sep) ==
  IF seqs = <<>> THEN <<>>
  ELSE IF Len(seqs) = 1 THEN Head(seqs)
  ELSE Head(seqs) \o sep \o Join(Tail(seqs), sep)

UpperLetters == S("ABCDEFGHIJKLMNOPQRSTUVWXYZ")
LowerLetters == S("abcdefghijklmnopqrstuvwxyz")
DigitChars == Range(S("0123456789"))
SpaceChars == {" ", "\t", "\n", "\r"}
WordChars == Range(UpperLetters) \cup Range(LowerLetters) \cup DigitChars \cup {"_"}

LowerOf == [c \in Range(UpperLetters) |->
              LowerLetters[CHOOSE i \in 1..26 : UpperLetters[i] = c]]

\* String.prototype.toLowerCase
toLowerCase(str) ==
  [i \in 1..Len(str) |-> IF str[i] \in DOMAIN LowerOf THEN LowerOf[str[i]] ELSE str[i]]

\* str.startsWith(sub, i - 1): sub occurs in str at (1-based) position i.
StartsAt(str, i, sub) ==
  /\ i >= 1
  /\ i + Len(sub) - 1 <= Len(str)
  /\ \A k \in 1..Len(sub) : str[i + k - 1] = sub[k]

\* String.prototype.includes
Includes(str, sub) ==
  \/ sub = <<>>
  \/ \E i \in 1..(Len(str) - Len(sub) + 1) :
       str[i] = sub[1] /\ SubSeq(str, i, i + Len(sub) - 1) = sub

\* String.prototype.indexOf, 1-based; 0 when sub does not occur.
IndexOf(str, sub) ==
  IF Includes(str, sub)
  THEN CHOOSE i \in 1..(Len(str) - Len(sub) + 1) :
         /\ StartsAt(str, i, sub)
         /\ \A j \in 1..(i - 1) : ~StartsAt(str, j, sub)
  ELSE 0

ANIME_KEYWORDS ==
  <<
    S("anime"), S("episode"), S("episodes"), S("streaming"), S("subbed"), S("dubbed"), S("sub"),
    S("dub"), S("ova"), S("ona"), S("simulcast"), S("season"), S("seasons"), S("watch online"),
    S("stream"), S("video player"), S("autoplay next"), S("opening"), S("ending"), S("op"),
    S("ed"), S("filler"), S("filler list"), S("canon"), S("voice actor"), S("seiyuu"),
    S("studio"), S("animation studio"), <<"U+30A2", "U+30CB", "U+30E1">>,
    <<"U+30A8", "U+30D4", "U+30BD", "U+30FC", "U+30C9">>, <<"U+8A71">>, <<"U+671F">>,
    <<"U+30B7", "U+30FC", "U+30BA", "U+30F3">>, S("1080p"), S("720p"), S("480p"), S("bluray"),
    S("bd"), S("dvd"), S("raw"), S("crunchyroll"), S("funimation"), S("hidive"),
    S("netflix anime"), S("animelab")
  >>

MANGA_KEYWORDS ==
  <<
    S("manga"), S("mangaka"), S("read manga"), S("manga reader"), S("manga scan"), S("shonen"),
    S("shounen"), S("shojo"), S("shoujo"), S("seinen"), S("josei"), S("kodomo"), S("oneshot"),
    S("one-shot"), S("tankoubon"), S("tankobon"), S("volume"), S("jump"), S("shonen jump"),
    S("weekly shonen"), S("magazine"), S("viz"), S("kodansha"), S("shueisha"), S("shogakukan"),
    S("square enix"), S("japanese"), S("japan"), S("jp"), <<"U+30DE", "U+30F3", "U+30AC">>,
    <<"U+6F2B", "U+753B">>, <<"U+5C11", "U+5E74">>, <<"U+5C11", "U+5973">>,
    <<"U+9752", "U+5E74">>, <<"U+5973", "U+6027">>, S("raw"), S("scanlation"), S("scanslation"),
    S("fan translation"), S("right to left"), S("rtl")
  >>

WEBCOMIC_KEYWORDS ==
  <<
    S("manhwa"), S("manhua"), S("webtoon"), S("webcomic"), S("web comic"), S("webcomics"),
    S("webtoons"), S("toon"), S("comic"), S("comics"), S("korean"), S("chinese"), S("korea"),
    S("china"), S("kr"), S("cn"), S("tapas"), S("tappytoon"), S("lezhin"), S("toomics"),
    S("manta"), S("pocket comics"), S("line webtoon"), S("naver"), S("kakao"), S("daum"),
    S("kuaikan"), S("bilibili comics"), S("vertical scroll"), S("long strip"), S("full color"),
    S("full colour"), S("colored"), S("scroll down"), S("infinite scroll"),
    <<"U+C6F9", "U+D230">>, <<"U+B9CC", "U+D654">>, <<"U+B124", "U+C774", "U+BC84">>,
    <<"U+CE74", "U+CE74", "U+C624">>, <<"U+6F2B", "U+753B", "U+7F51">>, <<"U+52A8", "U+6F2B">>,
    <<"U+56FD", "U+6F2B">>, <<"U+6F2B", "U+753B", "U+5C4B">>, S("cultivation"), S("regression"),
    S("reincarnation"), S("system"), S("hunter"), S("tower"), S("dungeon"), S("awakening"),
    S("martial arts"), S("murim")
  >>

NOVEL_KEYWORDS ==
  <<
    S("novel"), S("light novel"), S("lightnovel"), S("web novel"), S("webnovel"), S("ln"),
    S("wn"), S("fiction"), S("story"), S("stories"), S("chapter"), S("chapters"),
    S("fanfiction"), S("fanfic"), S("fan fiction"), S("fan fic"), S("fic"), S("wuxia"),
    S("xianxia"), S("xuanhuan"), S("cultivation"), S("isekai"), S("litrpg"), S("lit rpg"),
    S("progression"), S("progression fantasy"), S("gamelit"), S("harem"), S("romance"),
    S("fantasy"), S("sci-fi"), S("slice of life"), S("royalroad"), S("scribblehub"),
    S("wattpad"), S("ao3"), S("archiveofourown"), S("webnovel"), S("qidian"),
    <<"U+8D77", "U+70B9">>, S("word count"), S("pages"), S("reading time"), S("author note"),
    <<"U+30E9", "U+30A4", "U+30C8", "U+30CE", "U+30D9", "U+30EB">>, <<"U+5C0F", "U+8AAC">>,
    <<"U+306A", "U+308D", "U+3046">>, S("syosetu"), <<"U+5C0F", "U+8BF4">>,
    <<"U+8F7B", "U+5C0F", "U+8BF4">>, <<"U+7F51", "U+6587">>, S("volume"), S("vol"), S("book"),
    S("arc"), S("part"), S("prologue"), S("epilogue"), S("original"), S("original fiction"),
    S("oc"), S("original character")
  >>

ANIME_SITES ==
  <<
    S("crunchyroll.com"), S("funimation.com"), S("hidive.com"), S("vrv.co"), S("wakanim.tv"),
    S("animelab.com"), S("animax.com"), S("netflix.com/browse/genre/7424"),
    S("amazon.com/anime"), S("myanimelist.net"), S("anilist.co"), S("kitsu.io"),
    S("anime-planet.com"), S("anidb.net"), S("annict.com"), S("annict.jp"), S("livechart.me"),
    S("9anime"), S("gogoanime"), S("animixplay"), S("zoro.to"), S("aniwatch"), S("animesuge"),
    S("animepahe"), S("twist.moe"), S("animekisa"), S("animedao"), S("animefrenzy"),
    S("animeowl"), S("animesaturn"), S("animeflv"), S("jkanime"), S("monoschinos"),
    S("tioanime"), S("animeyt"), S("kayoanime"), S("animension"), S("animebee"),
    S("gogoanimes"), S("animeonsen"), S("4anime"), S("animekayo"), S("animeheaven"),
    S("aniwatcher"), S("animevibe"), S("ryuanime"), S("dubbedanime"), S("watchcartoononline"),
    S("kimcartoon")
  >>

MANGA_SITES ==
  <<
    S("mangadex.org"), S("mangaplus.shueisha.co.jp"), S("viz.com"), S("kodansha.us"),
    S("manga.club"), S("comikey.com"), S("azuki.co"), S("inkr.com"), S("coolmic.me"),
    S("mangamo.com"), S("shonenjump.com"), S("mangasee123.com"), S("manga4life.com"),
    S("mangareader.to"), S("mangakakalot.com"), S("mangakatana.com"), S("mangapill.com"),
    S("mangahub.io"), S("mangapark.to"), S("mangafox.me"), S("mangahere.cc"),
    S("mangaeden.com"), S("mangafreak.me"), S("mangaowl.net"), S("mangairo.com"),
    S("mangabat.com"), S("manganelo.com"), S("mangaclash.com"), S("mangajar.com"),
    S("readmng.com"), S("mangadoom.co"), S("mangahasu.se"), S("rawdevart.com"),
    S("mangaraw.org"), S("mangarawjp.com"), S("rawkuma.com"), S("klmanga.com"),
    S("manga1000.com"), S("manga1001.com")
  >>

WEBCOMIC_SITES ==
  <<
    S("webtoons.com"), S("webtoon.xyz"), S("tapas.io"), S("tappytoon.com"), S("lezhin.com"),
    S("lezhincomics.com"), S("toomics.com"), S("manta.net"), S("netcomics.com"),
    S("pocketcomics.com"), S("lehzin.com"), S("bomtoon.com"), S("mrblue.com"),
    S("kakaopage.com"), S("naver.com/webtoon"), S("kuaikanmanhua.com"), S("bilibili.com/manga"),
    S("dmzj.com"), S("manhuagui.com"), S("ac.qq.com"), S("u17.com"), S("dongmanmanhua.cn"),
    S("webcomicsapp.com"), S("asurascans.com"), S("asuracomic.net"), S("asuratoon.com"),
    S("reaperscans.com"), S("reapersans.com"), S("flamecomics.com"), S("flamescans.org"),
    S("luminousscans.com"), S("luminousscans.net"), S("manhuascan.io"), S("manhuaus.com"),
    S("manhuaplus.com"), S("manhwatop.com"), S("manhwa18.com"), S("manhwaclan.com"),
    S("zinmanga.com"), S("mangatx.com"), S("manhwabuddy.com"), S("resetscans.com"),
    S("hivetoon.com"), S("infernalvoidscans.com"), S("nitroscans.com"), S("nightscans.net"),
    S("harmonyscan.com"), S("immortalupdates.com"), S("cosmic-scans.com"), S("astrascans.com"),
    S("rizzfables.com"), S("arvenscans.com"), S("skscans.com"), S("bato.to"), S("batotoo.com"),
    S("comick.io"), S("comick.fun"), S("mangagg.com"), S("toonily.com"), S("manhwax.com"),
    S("manhuafast.com"), S("1stkissmanga.io"), S("1stkissmanga.me"), S("manhwa-freak.com")
  >>

NOVEL_SITES ==
  <<
    S("royalroad.com"), S("scribblehub.com"), S("wattpad.com"), S("fictionpress.com"),
    S("penana.com"), S("inkitt.com"), S("tapas.io/novels"), S("honeyfeed.fm"),
    S("webnovel.com"), S("neovel.io"), S("moonquill.com"), S("archiveofourown.org"),
    S("fanfiction.net"), S("quotev.com"), S("asianfanfics.com"), S("spiritfanfiction.com"),
    S("wuxiaworld.com"), S("novelfull.com"), S("lightnovelpub.com"), S("novelupdates.com"),
    S("novelbin.com"), S("novelhall.com"), S("readlightnovel.org"), S("boxnovel.com"),
    S("noveltop.com"), S("wnmtl.org"), S("wuxiaworld.site"), S("novelsemperor.com"),
    S("wuxiap.com"), S("ranobes.net"), S("freewebnovel.com"), S("lightnovelreader.org"),
    S("lightnovelsonl.com"), S("pandanovel.com"), S("69shu.com"), S("shu69.com"),
    S("qidian.com"), S("jjwxc.net"), S("syosetu.com"), S("kakuyomu.jp"), S("j-novel.club"),
    S("yenpress.com"), S("novelupdates.com"), S("lndb.info")
  >>
-----------------------------------------------------------------------------
(* URLs *)

\* The index of the first character of str at or after position i that is in
\* chars; Len(str) + 1 when there is none.
RECURSIVE FirstOf(_, _, _)
FirstOf(str, i, chars) ==
  IF i > Len(str) THEN Len(str) + 1
  ELSE IF str[i] \in chars THEN i
  ELSE FirstOf(str, i + 1, chars)

\* The index of the last character of str that is in chars; 0 when none.
RECURSIVE LastOf(_, _, _)
LastOf(str, i, chars) ==
  IF i < 1 THEN 0
  ELSE IF str[i] \in chars THEN i
  ELSE LastOf(str, i - 1, chars)

\* new URL(url) for an absolute http(s) URL: scheme "://" authority path.
\* Any other string makes the constructor throw (ok is FALSE).  The authority
\* is [userinfo "@"] host [":" port]; the host is lower-cased.
ParseUrl(str) ==
  LET lower  == toLowerCase(str)
      scheme == IF StartsAt(lower, 1, S("https://")) THEN 8
                ELSE IF StartsAt(lower, 1, S("http://")) THEN 7
                ELSE 0
      stop   == FirstOf(str, scheme + 1, {"/", "?", "#"})
      auth   == SubSeq(lower, scheme + 1, stop - 1)
      at     == LastOf(auth, Len(auth), {"@"})
      hostp  == SubSeq(auth, at + 1, Len(auth))
      colon  == FirstOf(hostp, 1, {":"})
      host   == SubSeq(hostp, 1, colon - 1)
      pstop  == FirstOf(str, stop, {"?", "#"})
      path   == SubSeq(str, stop, pstop - 1)
  IN IF scheme = 0 \/ host = <<>>
     THEN [ok |-> FALSE, hostname |-> <<>>, pathname |-> <<>>]
     ELSE [ok |-> TRUE, hostname |-> host,
           pathname |-> IF path = <<>> THEN S("/") ELSE path]

\* hostname.replace(/^www\./, '')
StripWww(host) ==
  IF StartsAt(host, 1, S("www.")) THEN SubSeq(host, 5, Len(host)) ELSE host

\* The TypeError that new URL(url) throws, as the value of the expression
\* that holds the call.
InvalidUrl == <<"TypeError: Invalid URL">>

\* An exception that leaves its try block.
Uncaught(value, fallback) == value

\* try { return value } catch { return fallback }
Caught(value, fallback) == IF value = InvalidUrl THEN fallback ELSE value

\* new URL(url).hostname.replace(/^www\./, '')
DomainOf(str) ==
  IF ParseUrl(str).ok THEN StripWww(ParseUrl(str).hostname) ELSE InvalidUrl

getDomain(str) == Caught(DomainOf(str), <<>>)

-----------------------------------------------------------------------------
(* Signal Classifier *)

\* Object.entries(keywordScores): the keys in insertion order.
MediaTypes == <<"anime", "manga", "webcomic", "novel">>

KEYWORDS == [anime |-> ANIME_KEYWORDS, manga |-> MANGA_KEYWORDS,
             webcomic |-> WEBCOMIC_KEYWORDS, novel |-> NOVEL_KEYWORDS]

SITES == [anime |-> ANIME_SITES, manga |-> MANGA_SITES,
          webcomic |-> WEBCOMIC_SITES, novel |-> NOVEL_SITES]

\* `${urlLower} ${titleLower} ${contentLower}`
AllText(u, t, content) ==
  toLowerCase(u) \o S(" ") \o toLowerCase(t) \o S(" ") \o toLowerCase(content)

\* for (const kw of X_KEYWORDS) if (allText.includes(kw)) score += kw.length > 4 ? 2 : 1
KeywordPoints(keywords, allText) ==
  SumSeq([i \in DOMAIN keywords |->
            IF Includes(allText, keywords[i])
            THEN (IF Len(keywords[i]) > 4 THEN 2 ELSE 1)
            ELSE 0])

\* site matches the URL: domain.includes(site) || urlLower.includes(site)
SiteMatches(site, domain, urlLower) ==
  Includes(domain, site) \/ Includes(urlLower, site)

\* SitePoints with a boost of 5 for 50.
SitePointsWeak(sites, domain, urlLower) ==
  SumSeq([i \in DOMAIN sites |->
            IF SiteMatches(sites[i], domain, urlLower) THEN 5 ELSE 0])

\* for (const site of X_SITES) if (site matches) score += 50
SitePoints(sites, domain, urlLower) ==
  SumSeq([i \in DOMAIN sites |->
            IF SiteMatches(sites[i], domain, urlLower) THEN 50 ELSE 0])

\* keywordScores when the eight loops are through.
TotalScores(u, t, content) ==
  [type \in Range(MediaTypes) |->
     KeywordPoints(KEYWORDS[type], AllText(u, t, content))
       + SitePoints(SITES[type], getDomain(u), toLowerCase(u))]

\* HighestFrom with >= for >: a later category takes a tie.
RECURSIVE HighestFromGe(_, _, _, _)
HighestFromGe(scores, i, maxScore, best) ==
  IF i > Len(MediaTypes) THEN best
  ELSE IF scores[MediaTypes[i]] >= maxScore
       THEN HighestFromGe(scores, i + 1, scores[MediaTypes[i]], MediaTypes[i])
       ELSE HighestFromGe(scores, i + 1, maxScore, best)

\* The loop over Object.entries(keywordScores) from entry i on.
RECURSIVE HighestFrom(_, _, _, _)
HighestFrom(scores, i, maxScore, best) ==
  IF i > Len(MediaTypes) THEN best
  ELSE IF scores[MediaTypes[i]] > maxScore
       THEN HighestFrom(scores, i + 1, scores[MediaTypes[i]], MediaTypes[i])
       ELSE HighestFrom(scores, i + 1, maxScore, best)

\* Highest without the default: detected starts out undefined.
HighestNoDefault(scores) == HighestFrom(scores, 1, 0, "undefined")

\* let maxScore = 0; let detected = 'manga'; for (...) ...; return detected
Highest(scores) == HighestFrom(scores, 1, 0, "manga")

detectMediaType(u, t, content) == Highest(TotalScores(u, t, content))

-----------------------------------------------------------------------------
(* Regular expressions of the Progress Extractor *)

\* The character classes the patterns use between a keyword and its number:
\*   "sep"      [_\-\s]      "sepdot"   [_\-\.\s]     "space"  \s
\*   "nondigit" [^\d]        "none"     (nothing)
InClass(c, class) ==
  CASE class = "sep"      -> c \in {"_", "-"} \cup SpaceChars
    [] class = "sepdot"   -> c \in {"_", "-", "."} \cup SpaceChars
    [] class = "space"    -> c \in SpaceChars
    [] class = "nondigit" -> c \notin DigitChars
    [] class = "none"     -> FALSE

\* The first index at or after i whose character is not in the class.
RECURSIVE SkipClass(_, _, _)
SkipClass(str, i, class) ==
  IF i > Len(str) THEN i
  ELSE IF InClass(str[i], class) THEN SkipClass(str, i + 1, class)
  ELSE i

\* The first index at or after i whose character is not a digit: \d+ is
\* greedy, and nothing in these patterns makes it give a digit back.
RECURSIVE SkipDigits(_, _)
SkipDigits(str, i) ==
  IF i > Len(str) THEN i
  ELSE IF str[i] \in DigitChars THEN SkipDigits(str, i + 1)
  ELSE i

IsDigitAt(str, i) == i >= 1 /\ i <= Len(str) /\ str[i] \in DigitChars

\* The end (exclusive) of (\d+) or, with frac, of (\d+(?:\.\d+)?) at i.
NumberEnd(str, i, frac) ==
  LET intEnd == SkipDigits(str, i)
  IN IF frac /\ intEnd <= Len(str) /\ str[intEnd] = "." /\ IsDigitAt(str, intEnd + 1)
     THEN SkipDigits(str, intEnd + 1)
     ELSE intEnd

\* \b in front of a word character at position i.
WordBoundaryBefore(str, i) == i = 1 \/ str[i - 1] \notin WordChars

\* The result of String.prototype.match: the capture groups 1 and 2; a group
\* that did not take part is the empty string here (both are falsy).
NoMatch == [found |-> FALSE, g1 |-> <<>>, g2 |-> <<>>]
Matched(group1, group2) == [found |-> TRUE, g1 |-> group1, g2 |-> group2]

\* The leftmost position in 1..Len(str) at which At holds; 0 when none.
Leftmost(str, At(_)) ==
  LET hits == {i \in 1..Len(str) : At(i)}
  IN IF hits = {} THEN 0 ELSE CHOOSE i \in hits : \A j \in hits : i <= j

\* /[\b]lit[class]*(\d+)/ and /[\b]lit[class]*(\d+(?:\.\d+)?)/
MatchKeyword(str, lit, class, frac, boundary) ==
  LET NumStart(p) == SkipClass(str, p + Len(lit), class)
      At(p) == /\ StartsAt(str, p, lit)
               /\ boundary => WordBoundaryBefore(str, p)
               /\ IsDigitAt(str, NumStart(p))
      p == Leftmost(str, At)
  IN IF p = 0 THEN NoMatch
     ELSE Matched(SubSeq(str, NumStart(p), NumberEnd(str, NumStart(p), frac) - 1), <<>>)

\* /\bs(\d+)e(\d+)/
MatchSeasonEpisode(str) ==
  LET SeasonEnd(p) == SkipDigits(str, p + 1)
      At(p) == /\ StartsAt(str, p, <<"s">>)
               /\ WordBoundaryBefore(str, p)
               /\ IsDigitAt(str, p + 1)
               /\ StartsAt(str, SeasonEnd(p), <<"e">>)
               /\ IsDigitAt(str, SeasonEnd(p) + 1)
      p == Leftmost(str, At)
  IN IF p = 0 THEN NoMatch
     ELSE Matched(SubSeq(str, p + 1, SeasonEnd(p) - 1),
                  SubSeq(str, SeasonEnd(p) + 1, SkipDigits(str, SeasonEnd(p) + 1) - 1))

\* /[open](\d+)[close]/, and with atEnd /[open](\d+)(?:[close]|$)/
MatchDelimited(str, open, close, atEnd) ==
  LET NumEnd(p) == SkipDigits(str, p + 1)
      At(p) == /\ p <= Len(str)
               /\ str[p] \in open
               /\ IsDigitAt(str, p + 1)
               /\ \/ atEnd /\ NumEnd(p) = Len(str) + 1
                  \/ NumEnd(p) <= Len(str) /\ str[NumEnd(p)] \in close
      p == Leftmost(str, At)
  IN IF p = 0 THEN NoMatch
     ELSE Matched(SubSeq(str, p + 1, NumEnd(p) - 1), <<>>)

\* /(?:^|\/|-)(\d+(?:\.\d+)?)(?:\/|$|-|\.html)/
\* The number is taken whole: what follows a shorter one is a digit or the
\* "." of its own fraction, and neither starts /, -, the end or .html.
MatchUrlNumber(str) ==
  LET EndsOk(e) == \/ e = Len(str) + 1
                   \/ e <= Len(str) /\ str[e] \in {"/", "-"}
                   \/ StartsAt(str, e, S(".html"))
      FromStart == IsDigitAt(str, 1) /\ EndsOk(NumberEnd(str, 1, TRUE))
      At(p) == /\ p <= Len(str)
               /\ str[p] \in {"/", "-"}
               /\ IsDigitAt(str, p + 1)
               /\ EndsOk(NumberEnd(str, p + 1, TRUE))
      p == Leftmost(str, At)
  IN IF FromStart THEN Matched(SubSeq(str, 1, NumberEnd(str, 1, TRUE) - 1), <<>>)
     ELSE IF p = 0 THEN NoMatch
     ELSE Matched(SubSeq(str, p + 1, NumberEnd(str, p + 1, TRUE) - 1), <<>>)

EPISODE_PATTERNS ==
  << "episode[_\\-\\s]*(\\d+)", "ep[_\\-\\s]*(\\d+)", "e(\\d+)(?!\\d)",
     "\\bs(\\d+)e(\\d+)", "\\bepisode\\s*(\\d+)", "U+3010(\\d+)U+3011",
     "U+7B2C(\\d+)U+8A71", "episode[^\\d]*(\\d+)" >>

CHAPTER_PATTERNS ==
  << "chapter[_\\-\\s]*(\\d+(?:\\.\\d+)?)", "ch[_\\-\\.\\s]*(\\d+(?:\\.\\d+)?)",
     "chap[_\\-\\.\\s]*(\\d+(?:\\.\\d+)?)", "c(\\d+)(?!\\d)",
     "(?:^|\\/|-)(\\d+(?:\\.\\d+)?)(?:\\/|$|-|\\.html)", "U+7B2C(\\d+)U+7AE0",
     "U+7B2C(\\d+)U+8BDD", "[\\[\\(](\\d+)[\\]\\)]", "\\s(\\d+)(?:\\s|$)" >>

\* str.match(pattern) for a lower-cased str (every pattern with letters has
\* the flag i).
Match(str, pattern) ==
  CASE pattern = "episode[_\\-\\s]*(\\d+)" ->
         MatchKeyword(str, S("episode"), "sep", FALSE, FALSE)
    [] pattern = "ep[_\\-\\s]*(\\d+)" ->
         MatchKeyword(str, S("ep"), "sep", FALSE, FALSE)
    [] pattern = "e(\\d+)(?!\\d)" ->
         MatchKeyword(str, S("e"), "none", FALSE, FALSE)
    [] pattern = "\\bs(\\d+)e(\\d+)" ->
         MatchSeasonEpisode(str)
    [] pattern = "\\bepisode\\s*(\\d+)" ->
         MatchKeyword(str, S("episode"), "space", FALSE, TRUE)
    [] pattern = "U+3010(\\d+)U+3011" ->
         MatchDelimited(str, {"U+3010"}, {"U+3011"}, FALSE)
    [] pattern = "U+7B2C(\\d+)U+8A71" ->
         MatchDelimited(str, {"U+7B2C"}, {"U+8A71"}, FALSE)
    [] pattern = "episode[^\\d]*(\\d+)" ->
         MatchKeyword(str, S("episode"), "nondigit", FALSE, FALSE)
    [] pattern = "chapter[_\\-\\s]*(\\d+(?:\\.\\d+)?)" ->
         MatchKeyword(str, S("chapter"), "sep", TRUE, FALSE)
    [] pattern = "ch[_\\-\\.\\s]*(\\d+(?:\\.\\d+)?)" ->
         MatchKeyword(str, S("ch"), "sepdot", TRUE, FALSE)
    [] pattern = "chap[_\\-\\.\\s]*(\\d+(?:\\.\\d+)?)" ->
         MatchKeyword(str, S("chap"), "sepdot", TRUE, FALSE)
    [] pattern = "c(\\d+)(?!\\d)" ->
         MatchKeyword(str, S("c"), "none", FALSE, FALSE)
    [] pattern = "(?:^|\\/|-)(\\d+(?:\\.\\d+)?)(?:\\/|$|-|\\.html)" ->
         MatchUrlNumber(str)
    [] pattern = "U+7B2C(\\d+)U+7AE0" ->
         MatchDelimited(str, {"U+7B2C"}, {"U+7AE0"}, FALSE)
    [] pattern = "U+7B2C(\\d+)U+8BDD" ->
         MatchDelimited(str, {"U+7B2C"}, {"U+8BDD"}, FALSE)
    [] pattern = "[\\[\\(](\\d+)[\\]\\)]" ->
         MatchDelimited(str, {"[", "("}, {"]", ")"}, FALSE)
    [] pattern = "\\s(\\d+)(?:\\s|$)" ->
         MatchDelimited(str, SpaceChars, SpaceChars, TRUE)

-----------------------------------------------------------------------------
(* Progress Extractor *)

\* A JavaScript number with a decimal expansion: whole is its integer part
\* and frac the digits after the point, without trailing zeros.
DigitValue(c) == CHOOSE v \in 0..9 : S("0123456789")[v + 1] = c

RECURSIVE ParseNat(_)
ParseNat(digits) ==
  IF digits = <<>> THEN 0
  ELSE 10 * ParseNat(SubSeq(digits, 1, Len(digits) - 1)) + DigitValue(digits[Len(digits)])

RECURSIVE StripZeros(_)
StripZeros(digits) ==
  IF digits # <<>> /\ digits[Len(digits)] = "0"
  THEN StripZeros(SubSeq(digits, 1, Len(digits) - 1))
  ELSE digits

Integer(n) == [whole |-> n, frac |-> <<>>]

\* parseInt in the place of parseFloat: the digits before the point.
parseIntOfFloat(numStr) ==
  Integer(ParseNat(IF IndexOf(numStr, <<".">>) = 0 THEN numStr
                   ELSE SubSeq(numStr, 1, IndexOf(numStr, <<".">>) - 1)))

\* parseFloat of a capture \d+ or \d+\.\d+
parseFloat(numStr) ==
  LET dot == IndexOf(numStr, <<".">>)
  IN IF dot = 0 THEN Integer(ParseNat(numStr))
     ELSE [whole |-> ParseNat(SubSeq(numStr, 1, dot - 1)),
           frac  |-> StripZeros(SubSeq(numStr, dot + 1, Len(numStr)))]

\* parseInt(str, 10) of a capture \d+
parseInt(numStr) == Integer(ParseNat(numStr))

\* Math.floor of a number that is not negative
Floor(num) == Integer(num.whole)

Between0AndOrAt(num, limit) ==
  /\ num.whole > 0 \/ num.frac # <<>>
  /\ num.whole <= limit

\* num > 0 && num < limit, for an integer limit
Between0And(num, limit) ==
  /\ num.whole > 0 \/ num.frac # <<>>
  /\ num.whole < limit

\* return isAnime ? { episode: value } : { chapter: value }
Mark(isAnime, value) ==
  IF isAnime THEN [episode |-> value] ELSE [chapter |-> value]

\* return {}
EmptyMark == <<>>

\* The first loop or the second: the patterns from i on against str.  The
\* result of the first plausible capture, or found FALSE when the loop ends.
RECURSIVE TryPatterns(_, _, _, _)
TryPatterns(str, patterns, i, isAnime) ==
  IF i > Len(patterns) THEN [found |-> FALSE, mark |-> EmptyMark]
  ELSE LET match  == Match(str, patterns[i])
           numStr == IF match.g2 # <<>> THEN match.g2 ELSE match.g1
           num    == parseFloat(numStr)
       IN IF match.found /\ Between0And(num, 10000)
          THEN [found |-> TRUE,
                mark  |-> Mark(isAnime, IF isAnime THEN Floor(num) ELSE num)]
          ELSE TryPatterns(str, patterns, i + 1, isAnime)

\* LastResort with the field not chosen by the category.
LastResortChapter(u, isAnime) ==
  LET pathMatch == MatchDelimited(u, {"/"}, {"/", "?"}, TRUE)
      num       == parseInt(pathMatch.g1)
  IN IF pathMatch.found /\ Between0And(num, 5000)
     THEN [chapter |-> num]
     ELSE EmptyMark

\* url.match(/\/(\d+)(?:\/|$|\?)/) and what follows it
LastResort(u, isAnime) ==
  LET pathMatch == MatchDelimited(u, {"/"}, {"/", "?"}, TRUE)
      num       == parseInt(pathMatch.g1)
  IN IF pathMatch.found /\ Between0And(num, 5000)
     THEN Mark(isAnime, num)
     ELSE EmptyMark

extractProgressTitleFirst(u, t, type) ==
  LET isAnime   == type = "anime"
      patterns  == IF isAnime THEN EPISODE_PATTERNS ELSE CHAPTER_PATTERNS
      fromUrl   == TryPatterns(toLowerCase(u), patterns, 1, isAnime)
      fromTitle == TryPatterns(toLowerCase(t), patterns, 1, isAnime)
  IN IF fromTitle.found THEN fromTitle.mark
     ELSE IF fromUrl.found THEN fromUrl.mark
     ELSE LastResort(u, isAnime)

extractProgress(u, t, type) ==
  LET isAnime   == type = "anime"
      patterns  == IF isAnime THEN EPISODE_PATTERNS ELSE CHAPTER_PATTERNS
      fromUrl   == TryPatterns(toLowerCase(u), patterns, 1, isAnime)
      fromTitle == TryPatterns(toLowerCase(t), patterns, 1, isAnime)
  IN IF fromUrl.found THEN fromUrl.mark
     ELSE IF fromTitle.found THEN fromTitle.mark
     ELSE LastResort(u, isAnime)


-----------------------------------------------------------------------------
(* Progress Extractor: extractProgressSimple *)

\* What stands between a keyword and its number in the patterns of
\* extractProgressSimple:
\*   "optsep"   [_-]?      "space"   \s*      "dotspace"   \.?\s*
\* The index behind it, from i on.  None of them can take a digit, so there
\* is one way to match them in front of (\d+).
SkipGap(str, i, gap) ==
  CASE gap = "optsep" ->
         IF i <= Len(str) /\ str[i] \in {"_", "-"} THEN i + 1 ELSE i
    [] gap = "space" ->
         SkipClass(str, i, "space")
    [] gap = "dotspace" ->
         SkipClass(str, IF i <= Len(str) /\ str[i] = "." THEN i + 1 ELSE i, "space")

\* /lit[gap](\d+)/ on a lower-cased str
MatchGap(str, lit, gap) ==
  LET NumStart(p) == SkipGap(str, p + Len(lit), gap)
      At(p) == StartsAt(str, p, lit) /\ IsDigitAt(str, NumStart(p))
      p == Leftmost(str, At)
  IN IF p = 0 THEN NoMatch
     ELSE Matched(SubSeq(str, NumStart(p), SkipDigits(str, NumStart(p)) - 1), <<>>)

\* /\/(\d+)\/?$/
MatchEndsWithNumber(str) ==
  LET NumEnd(p) == SkipDigits(str, p + 1)
      At(p) == /\ str[p] = "/"
               /\ IsDigitAt(str, p + 1)
               /\ \/ NumEnd(p) = Len(str) + 1
                  \/ NumEnd(p) = Len(str) /\ str[NumEnd(p)] = "/"
      p == Leftmost(str, At)
  IN IF p = 0 THEN NoMatch
     ELSE Matched(SubSeq(str, p + 1, NumEnd(p) - 1), <<>>)

\* The sources of allPatterns, in list order.
allPatterns ==
  << "chapter[_-]?(\\d+)", "ch[_-]?(\\d+)", "episode[_-]?(\\d+)", "ep[_-]?(\\d+)",
     "\\/(\\d+)\\/?$",
     "chapter\\s*(\\d+)", "ch\\.?\\s*(\\d+)", "episode\\s*(\\d+)", "ep\\.?\\s*(\\d+)" >>

\* str.match(pattern) for a pattern of allPatterns: the keywords carry the
\* flag i, and str is matched as it is written.
MatchSimple(str, pattern) ==
  CASE pattern = "chapter[_-]?(\\d+)" -> MatchGap(toLowerCase(str), S("chapter"), "optsep")
    [] pattern = "ch[_-]?(\\d+)"      -> MatchGap(toLowerCase(str), S("ch"), "optsep")
    [] pattern = "episode[_-]?(\\d+)" -> MatchGap(toLowerCase(str), S("episode"), "optsep")
    [] pattern = "ep[_-]?(\\d+)"      -> MatchGap(toLowerCase(str), S("ep"), "optsep")
    [] pattern = "\\/(\\d+)\\/?$"     -> MatchEndsWithNumber(str)
    [] pattern = "chapter\\s*(\\d+)"  -> MatchGap(toLowerCase(str), S("chapter"), "space")
    [] pattern = "ch\\.?\\s*(\\d+)"   -> MatchGap(toLowerCase(str), S("ch"), "dotspace")
    [] pattern = "episode\\s*(\\d+)"  -> MatchGap(toLowerCase(str), S("episode"), "space")
    [] pattern = "ep\\.?\\s*(\\d+)"   -> MatchGap(toLowerCase(str), S("ep"), "dotspace")

\* A test for the letter e alone.
SourceIncludesE(pattern) == Includes(toLowerCase(S(pattern)), S("e"))

\* pattern.source.toLowerCase().includes('ep')
SourceIncludesEp(pattern) == Includes(toLowerCase(S(pattern)), S("ep"))

\* const num = parseInt(m[1], 10); if (!isNaN(num) && num > 0 && num < 10000)
SimpleCapture(match) == match.found /\ Between0And(parseInt(match.g1), 10000)

\* for (const pattern of allPatterns) { ... }, from pattern i on: the URL is
\* tried before the title under each pattern.
RECURSIVE TrySimple(_, _, _)
TrySimple(u, t, i) ==
  IF i > Len(allPatterns) THEN EmptyMark
  ELSE IF SimpleCapture(MatchSimple(u, allPatterns[i]))
  THEN Mark(SourceIncludesEp(allPatterns[i]), parseInt(MatchSimple(u, allPatterns[i]).g1))
  ELSE IF SimpleCapture(MatchSimple(t, allPatterns[i]))
  THEN Mark(SourceIncludesEp(allPatterns[i]), parseInt(MatchSimple(t, allPatterns[i]).g1))
  ELSE TrySimple(u, t, i + 1)

extractProgressSimple(u, t) == TrySimple(u, t, 1)
-----------------------------------------------------------------------------
(* Title Normalizer: normalizeTitle *)

\* What "." does not match.
LineTerminators == {"\n", "\r"}

\* .*$ at position i: no line terminator from i to the end.
DotToEnd(str, i) == \A k \in i..Len(str) : str[k] \notin LineTerminators

IsSpaceAt(str, i) == i >= 1 /\ i <= Len(str) /\ str[i] \in SpaceChars

\* The sources of the patterns, every one with the flag i.
TITLE_CLEANUP_PATTERNS ==
  << "\\s+[-U+2013U+2014|]\\s+.+$",
     "\\s+on\\s+\\S+\\.(?:com|net|org|io|to|tv|me|cc)$",
     "\\s+(?:read|watch)\\s+(?:online|free).*$",
     "\\s+(?:in\\s+)?(?:english|eng)\\s+(?:online|free|sub|dub|raw).*$",
     "\\s+(?:online|free)\\s*(?:reading|streaming)?.*$",
     "\\s+(?:chapter|ch\\.?|episode|ep\\.?)\\s*\\d+.*$",
     "\\s+(?:volume|vol\\.?)\\s*\\d+.*$",
     "\\s*\\([^)]*(?:manga|anime|novel|webtoon|manhwa|manhua)[^)]*\\)$",
     "\\s+(?:manga|manhwa|manhua|webtoon|novel|anime)$" >>

\* The cleanup patterns all end in $: a match at position p runs to the end
\* of the string.  CleanupAt(pattern, str, p) says that pattern matches str
\* from p; str is compared lower-cased.
CleanupAt(pattern, str, p) ==
  LET low == toLowerCase(str)
      \* the element after a leading \s+, which cannot give a space back
      e   == SkipClass(str, p, "space")
  IN CASE pattern = "\\s+[-U+2013U+2014|]\\s+.+$" ->
            /\ IsSpaceAt(str, p)
            /\ e <= Len(str) /\ str[e] \in {"-", "U+2013", "U+2014", "|"}
            /\ IsSpaceAt(str, e + 1)
            /\ \E k \in (e + 2)..SkipClass(str, e + 1, "space") :
                 k <= Len(str) /\ DotToEnd(str, k)
       [] pattern = "\\s+on\\s+\\S+\\.(?:com|net|org|io|to|tv|me|cc)$" ->
            /\ IsSpaceAt(str, p)
            /\ StartsAt(low, e, S("on"))
            /\ IsSpaceAt(str, e + 2)
            /\ \E tld \in {S("com"), S("net"), S("org"), S("io"), S("to"),
                           S("tv"), S("me"), S("cc")} :
                 LET dot  == Len(str) - Len(tld)
                     host == SkipClass(str, e + 2, "space")
                 IN /\ StartsAt(low, dot, <<".">> \o tld)
                    /\ host < dot
                    /\ \A k \in host..(dot - 1) : str[k] \notin SpaceChars
       [] pattern = "\\s+(?:read|watch)\\s+(?:online|free).*$" ->
            /\ IsSpaceAt(str, p)
            /\ \E w \in {S("read"), S("watch")} :
                 /\ StartsAt(low, e, w)
                 /\ IsSpaceAt(str, e + Len(w))
                 /\ \E v \in {S("online"), S("free")} :
                      LET f == SkipClass(str, e + Len(w), "space")
                      IN StartsAt(low, f, v) /\ DotToEnd(str, f + Len(v))
       [] pattern = "\\s+(?:in\\s+)?(?:english|eng)\\s+(?:online|free|sub|dub|raw).*$" ->
            /\ IsSpaceAt(str, p)
            /\ \E lang \in {S("english"), S("eng")},
                  v \in {S("online"), S("free"), S("sub"), S("dub"), S("raw")} :
                 \E l \in {e} \cup (IF StartsAt(low, e, S("in")) /\ IsSpaceAt(str, e + 2)
                                    THEN {SkipClass(str, e + 2, "space")}
                                    ELSE {}) :
                   /\ StartsAt(low, l, lang)
                   /\ IsSpaceAt(str, l + Len(lang))
                   /\ LET f == SkipClass(str, l + Len(lang), "space")
                      IN StartsAt(low, f, v) /\ DotToEnd(str, f + Len(v))
       [] pattern = "\\s+(?:online|free)\\s*(?:reading|streaming)?.*$" ->
            /\ IsSpaceAt(str, p)
            /\ \E w \in {S("online"), S("free")} :
                 /\ StartsAt(low, e, w)
                 /\ \E k \in (e + Len(w))..SkipClass(str, e + Len(w), "space") :
                      DotToEnd(str, k)
       [] pattern = "\\s+(?:chapter|ch\\.?|episode|ep\\.?)\\s*\\d+.*$" ->
            /\ IsSpaceAt(str, p)
            /\ \E w \in {S("chapter"), S("ch"), S("ch."), S("episode"),
                         S("ep"), S("ep.")} :
                 LET d == SkipClass(str, e + Len(w), "space")
                 IN StartsAt(low, e, w) /\ IsDigitAt(str, d) /\ DotToEnd(str, d + 1)
       [] pattern = "\\s+(?:volume|vol\\.?)\\s*\\d+.*$" ->
            /\ IsSpaceAt(str, p)
            /\ \E w \in {S("volume"), S("vol"), S("vol.")} :
                 LET d == SkipClass(str, e + Len(w), "space")
                 IN StartsAt(low, e, w) /\ IsDigitAt(str, d) /\ DotToEnd(str, d + 1)
       [] pattern = "\\s*\\([^)]*(?:manga|anime|novel|webtoon|manhwa|manhua)[^)]*\\)$" ->
            /\ e < Len(str)
            /\ str[e] = "("
            /\ str[Len(str)] = ")"
            /\ \A k \in (e + 1)..(Len(str) - 1) : str[k] # ")"
            /\ \E w \in {S("manga"), S("anime"), S("novel"), S("webtoon"),
                         S("manhwa"), S("manhua")} :
                 Includes(SubSeq(low, e + 1, Len(str) - 1), w)
       [] pattern = "\\s+(?:manga|manhwa|manhua|webtoon|novel|anime)$" ->
            /\ IsSpaceAt(str, p)
            /\ SubSeq(low, e, Len(str)) \in
                 {S("manga"), S("manhwa"), S("manhua"), S("webtoon"),
                  S("novel"), S("anime")}

\* str cut before position p of a match, whole when p is 0.
CutAt(str, p) == IF p = 0 THEN str ELSE SubSeq(str, 1, p - 1)

\* str.replace(pattern, '')
RemovePattern(pattern, str) ==
  LET At(p) == CleanupAt(pattern, str, p)
  IN CutAt(str, Leftmost(str, At))

\* for (const pattern of TITLE_CLEANUP_PATTERNS) str = str.replace(pattern, '')
RECURSIVE ApplyCleanup(_, _)
ApplyCleanup(n, str) ==
  IF n > Len(TITLE_CLEANUP_PATTERNS) THEN str
  ELSE ApplyCleanup(n + 1, RemovePattern(TITLE_CLEANUP_PATTERNS[n], str))

\* .replace(/[^\w\s]/g, ' ')
PunctuationToSpace(str) ==
  [i \in 1..Len(str) |->
     IF str[i] \in WordChars \cup SpaceChars THEN str[i] ELSE " "]

\* .replace(/\s+/g, ' ')
RECURSIVE CollapseSpaces(_)
CollapseSpaces(str) ==
  IF str = <<>> THEN <<>>
  ELSE IF str[1] \in SpaceChars
       THEN <<" ">> \o CollapseSpaces(SubSeq(str, SkipClass(str, 1, "space"), Len(str)))
       ELSE <<str[1]>> \o CollapseSpaces(Tail(str))

\* String.prototype.trim
RECURSIVE TrimEnd(_)
TrimEnd(str) ==
  IF str # <<>> /\ str[Len(str)] \in SpaceChars
  THEN TrimEnd(SubSeq(str, 1, Len(str) - 1))
  ELSE str

Trim(str) == TrimEnd(SubSeq(str, SkipClass(str, 1, "space"), Len(str)))

normalizeTitle(t) ==
  Trim(CollapseSpaces(PunctuationToSpace(ApplyCleanup(1, toLowerCase(t)))))

-----------------------------------------------------------------------------
(* Similarity Scorer: calculateTitleSimilarity *)

\* str.split(' ')
RECURSIVE Split(_)
Split(str) ==
  LET sp == FirstOf(str, 1, {" "})
  IN IF sp > Len(str) THEN <<str>>
     ELSE <<SubSeq(str, 1, sp - 1)>> \o Split(SubSeq(str, sp + 1, Len(str)))

\* new Set(norm.split(' ').filter(w => w.length > 2))
Words(norm) == {w \in Range(Split(norm)) : Len(w) > 2}

\* A score is the quotient num / den of two lengths or two set sizes.
Ratio(n, d) == [num |-> n, den |-> d]
AtLeast(score, n, d) == score.num * d >= n * score.den
Greater(a, b) == a.num * b.den > b.num * a.den

\* The matching words over the words of the first title.
MatchesOverFirst(words1, words2) ==
  IF words1 = {} \/ words2 = {} THEN Ratio(0, 1)
  ELSE Ratio(Cardinality(words1 \cap words2), Cardinality(words1))

\* The word-based matching and its Jaccard-like quotient.
WordSimilarity(words1, words2) ==
  IF words1 = {} \/ words2 = {} THEN Ratio(0, 1)
  ELSE Ratio(Cardinality(words1 \cap words2), Cardinality(words1 \cup words2))

\* A scorer that looks for the second title inside the first one only.
OneWayContainment(norm1, norm2) ==
  IF norm1 = norm2 THEN Ratio(1, 1)
  ELSE IF norm1 = <<>> \/ norm2 = <<>> THEN Ratio(0, 1)
  ELSE IF Includes(norm1, norm2) THEN Ratio(Len(norm2), Len(norm1))
  ELSE WordSimilarity(Words(norm1), Words(norm2))

\* A scorer that looks for an empty title before it looks for equal ones.
EmptyFirst(norm1, norm2) ==
  IF norm1 = <<>> \/ norm2 = <<>> THEN Ratio(0, 1)
  ELSE IF norm1 = norm2 THEN Ratio(1, 1)
  ELSE Ratio(0, 1)

\* calculateTitleSimilarity behind its two calls of normalizeTitle.
NormalizedSimilarity(norm1, norm2) ==
  IF norm1 = norm2 THEN Ratio(1, 1)
  ELSE IF norm1 = <<>> \/ norm2 = <<>> THEN Ratio(0, 1)
  ELSE IF Includes(norm1, norm2) \/ Includes(norm2, norm1)
       THEN IF Len(norm1) < Len(norm2)
            THEN Ratio(Len(norm1), Len(norm2))
            ELSE Ratio(Len(norm2), Len(norm1))
  ELSE WordSimilarity(Words(norm1), Words(norm2))

calculateTitleSimilarity(title1, title2) ==
  NormalizedSimilarity(normalizeTitle(title1), normalizeTitle(title2))


-----------------------------------------------------------------------------
(* Title Normalizer: cleanTitle (CleanTitle here, cleanTitle being the name of
   a variable) *)

UpperCaseOf == [c \in Range(LowerLetters) |->
                  UpperLetters[CHOOSE i \in 1..26 : LowerLetters[i] = c]]

\* String.prototype.toUpperCase
toUpperCase(str) ==
  [i \in 1..Len(str) |-> IF str[i] \in DOMAIN UpperCaseOf THEN UpperCaseOf[str[i]] ELSE str[i]]

minorWords ==
  { S("a"), S("an"), S("the"), S("and"), S("but"), S("or"), S("for"), S("nor"),
    S("on"), S("at"), S("to"), S("by"), S("of"), S("in") }

\* word.charAt(0).toUpperCase() + word.slice(1).toLowerCase()
Capitalized(word) ==
  IF word = <<>> THEN <<>>
  ELSE toUpperCase(<<Head(word)>>) \o toLowerCase(Tail(word))

\* The callback of map in toTitleCase.
TitleCaseWord(word, index) ==
  IF index = 0 \/ toLowerCase(word) \notin minorWords
  THEN Capitalized(word)
  ELSE toLowerCase(word)

TitleCaseWords(words) == [i \in DOMAIN words |-> TitleCaseWord(words[i], i - 1)]

toTitleCase(str) == Join(TitleCaseWords(Split(str)), S(" "))

\* cleaned === cleaned.toLowerCase() || cleaned === cleaned.toUpperCase()
OneCase(cleaned) == cleaned = toLowerCase(cleaned) \/ cleaned = toUpperCase(cleaned)

\* cleanTitle after the patterns and the whitespace clean-up
CasedTitle(cleaned) == IF OneCase(cleaned) THEN toTitleCase(cleaned) ELSE cleaned

CleanTitle(t) == CasedTitle(Trim(CollapseSpaces(ApplyCleanup(1, t))))
-----------------------------------------------------------------------------
(* Title Extractor *)

\* str.split(ch) for a one-character separator
RECURSIVE SplitOn(_, _)
SplitOn(str, ch) ==
  IF FirstOf(str, 1, {ch}) > Len(str) THEN <<str>>
  ELSE <<SubSeq(str, 1, FirstOf(str, 1, {ch}) - 1)>>
         \o SplitOn(SubSeq(str, FirstOf(str, 1, {ch}) + 1, Len(str)), ch)

\* /^\d+$/.test(part)
AllDigits(part) == part # <<>> /\ \A i \in DOMAIN part : part[i] \in DigitChars

\* new URL(url).pathname.split('/').filter(Boolean)
PathParts(u) == SelectSeq(SplitOn(ParseUrl(u).pathname, "/"), LAMBDA part : part # <<>>)


\* The sources of the patterns removed from the end of a page title; those
\* with letters carry the flag i.
TITLE_SUFFIX_PATTERNS ==
  << " [-U+2013U+2014|:] .{0,30}$",
     " :: .+$",
     "\\s*\\([^)]{0,20}\\)$",
     "\\s*U+3010[^U+3011]+U+3011$",
     " - Read .+$",
     " Chapter \\d+.*$",
     " Episode \\d+.*$",
     " Ch\\.\\s*\\d+.*$",
     " Ep\\.\\s*\\d+.*$",
     " #\\d+.*$",
     "\\s*-\\s*Chapter\\s*\\d+",
     "\\s*-\\s*Episode\\s*\\d+" >>

\* The sources of the patterns removed from the start, all with the flag i.
TITLE_PREFIX_PATTERNS ==
  << "^Read\\s+",
     "^Watch\\s+",
     "^Stream\\s+",
     "^Chapter\\s*\\d+\\s*[-U+2013:]\\s*",
     "^Episode\\s*\\d+\\s*[-U+2013:]\\s*" >>

\* sub, written in lower case, occurs in str at position i whatever the case
\* of the letters of str (the flag i).
StartsAtAnyCase(str, i, sub) ==
  /\ i >= 1
  /\ i + Len(sub) - 1 <= Len(str)
  /\ \A k \in 1..Len(sub) : toLowerCase(<<str[i + k - 1]>>) = <<sub[k]>>

\* ( [^close]{least,most} close $ with the opening bracket at position e
Bracketed(str, e, open, close, least, most) ==
  /\ e < Len(str)
  /\ str[e] = open
  /\ str[Len(str)] = close
  /\ \A k \in (e + 1)..(Len(str) - 1) : str[k] # close
  /\ Len(str) - 1 - e >= least
  /\ Len(str) - 1 - e <= most

\* lit [class]* \d+ .* $ at position p of str
LiteralNumberToEnd(str, p, lit, class) ==
  /\ StartsAtAnyCase(str, p, lit)
  /\ IsDigitAt(str, SkipClass(str, p + Len(lit), class))
  /\ DotToEnd(str, SkipClass(str, p + Len(lit), class) + 1)

\* \s* - \s* word \s* \d+ at position p of str: the position after the
\* match, 0 when there is none.
DashWordNumber(str, p, word) ==
  LET dash  == SkipClass(str, p, "space")
      w     == SkipClass(str, dash + 1, "space")
      d     == SkipClass(str, w + Len(word), "space")
  IN IF /\ dash <= Len(str) /\ str[dash] = "-"
        /\ StartsAtAnyCase(str, w, word)
        /\ IsDigitAt(str, d)
     THEN SkipDigits(str, d)
     ELSE 0

\* The position after the match of a suffix pattern that starts at position
\* p of str, 0 when the pattern does not match there.
SuffixEnd(pattern, str, p) ==
  LET ToEnd(matches) == IF matches THEN Len(str) + 1 ELSE 0
  IN CASE pattern = " [-U+2013U+2014|:] .{0,30}$" ->
            ToEnd(/\ p + 2 <= Len(str)
                  /\ str[p] = " "
                  /\ str[p + 1] \in {"-", "U+2013", "U+2014", "|", ":"}
                  /\ str[p + 2] = " "
                  /\ Len(str) - (p + 2) <= 30
                  /\ DotToEnd(str, p + 3))
       [] pattern = " :: .+$" ->
            ToEnd(/\ StartsAt(str, p, S(" :: "))
                  /\ p + 4 <= Len(str)
                  /\ DotToEnd(str, p + 4))
       [] pattern = "\\s*\\([^)]{0,20}\\)$" ->
            ToEnd(Bracketed(str, SkipClass(str, p, "space"), "(", ")", 0, 20))
       [] pattern = "\\s*U+3010[^U+3011]+U+3011$" ->
            ToEnd(Bracketed(str, SkipClass(str, p, "space"), "U+3010", "U+3011",
                            1, Len(str)))
       [] pattern = " - Read .+$" ->
            ToEnd(/\ StartsAtAnyCase(str, p, S(" - read "))
                  /\ p + 8 <= Len(str)
                  /\ DotToEnd(str, p + 8))
       [] pattern = " Chapter \\d+.*$" ->
            ToEnd(LiteralNumberToEnd(str, p, S(" chapter "), "none"))
       [] pattern = " Episode \\d+.*$" ->
            ToEnd(LiteralNumberToEnd(str, p, S(" episode "), "none"))
       [] pattern = " Ch\\.\\s*\\d+.*$" ->
            ToEnd(LiteralNumberToEnd(str, p, S(" ch."), "space"))
       [] pattern = " Ep\\.\\s*\\d+.*$" ->
            ToEnd(LiteralNumberToEnd(str, p, S(" ep."), "space"))
       [] pattern = " #\\d+.*$" ->
            ToEnd(LiteralNumberToEnd(str, p, S(" #"), "none"))
       [] pattern = "\\s*-\\s*Chapter\\s*\\d+" ->
            DashWordNumber(str, p, S("chapter"))
       [] pattern = "\\s*-\\s*Episode\\s*\\d+" ->
            DashWordNumber(str, p, S("episode"))

\* str without the characters from position p up to position q - 1
CutBetween(str, p, q) ==
  IF p = 0 THEN str ELSE SubSeq(str, 1, p - 1) \o SubSeq(str, q, Len(str))

\* title.replace(pattern, '') for a suffix pattern: the leftmost match goes.
RemoveSuffixAt(pattern, str, p) ==
  CutBetween(str, p, IF p = 0 THEN 0 ELSE SuffixEnd(pattern, str, p))

RemoveSuffix(pattern, str) ==
  LET At(p) == SuffixEnd(pattern, str, p) # 0
  IN RemoveSuffixAt(pattern, str, Leftmost(str, At))

\* for (const pattern of TITLE_SUFFIX_PATTERNS) title = title.replace(pattern, '')
RECURSIVE ApplySuffixes(_, _)
ApplySuffixes(n, str) ==
  IF n > Len(TITLE_SUFFIX_PATTERNS) THEN str
  ELSE ApplySuffixes(n + 1, RemoveSuffix(TITLE_SUFFIX_PATTERNS[n], str))

\* ^ word \s+ : the position after the match, 0 when there is none.
WordSpaces(str, word) ==
  IF StartsAtAnyCase(str, 1, word) /\ IsSpaceAt(str, Len(word) + 1)
  THEN SkipClass(str, Len(word) + 1, "space")
  ELSE 0

\* ^ word \s* \d+ \s* [-U+2013:] \s* : the position after the match, 0 when
\* there is none.
WordNumberDash(str, word) ==
  LET d    == SkipClass(str, Len(word) + 1, "space")
      dash == SkipClass(str, SkipDigits(str, d), "space")
  IN IF /\ StartsAtAnyCase(str, 1, word)
        /\ IsDigitAt(str, d)
        /\ dash <= Len(str) /\ str[dash] \in {"-", "U+2013", ":"}
     THEN SkipClass(str, dash + 1, "space")
     ELSE 0

\* The position after the match of a prefix pattern, 0 when it does not match.
PrefixEnd(pattern, str) ==
  CASE pattern = "^Read\\s+" -> WordSpaces(str, S("read"))
    [] pattern = "^Watch\\s+" -> WordSpaces(str, S("watch"))
    [] pattern = "^Stream\\s+" -> WordSpaces(str, S("stream"))
    [] pattern = "^Chapter\\s*\\d+\\s*[-U+2013:]\\s*" -> WordNumberDash(str, S("chapter"))
    [] pattern = "^Episode\\s*\\d+\\s*[-U+2013:]\\s*" -> WordNumberDash(str, S("episode"))

\* title.replace(pattern, '') for a prefix pattern
RemovePrefix(pattern, str) ==
  IF PrefixEnd(pattern, str) = 0 THEN str
  ELSE SubSeq(str, PrefixEnd(pattern, str), Len(str))

\* for (const pattern of TITLE_PREFIX_PATTERNS) title = title.replace(pattern, '')
RECURSIVE ApplyPrefixes(_, _)
ApplyPrefixes(n, str) ==
  IF n > Len(TITLE_PREFIX_PATTERNS) THEN str
  ELSE ApplyPrefixes(n + 1, RemovePrefix(TITLE_PREFIX_PATTERNS[n], str))

\* /^(home|index|page|read|watch|chapter|episode)$/i.test(title)
GenericTitles ==
  { S("home"), S("index"), S("page"), S("read"), S("watch"), S("chapter"),
    S("episode") }

IsGeneric(str) == toLowerCase(str) \in GenericTitles

\* title.length < 3 || /^(home|...|episode)$/i.test(title)
TooShortOrGeneric(str) == Len(str) < 3 \/ IsGeneric(str)

skipSegments ==
  { S("manga"), S("comic"), S("anime"), S("novel"), S("read"), S("watch"),
    S("chapter"), S("episode"), S("series"), S("title") }

\* .replace(/[-_]/g, ' ')
DashesToSpaces(part) ==
  [i \in 1..Len(part) |-> IF part[i] \in {"-", "_"} THEN " " ELSE part[i]]

\* .replace(/\.(html?|php|aspx?)$/i, '')
StripExtension(part) ==
  LET ends == {ext \in {S(".htm"), S(".html"), S(".php"), S(".asp"), S(".aspx")} :
                 /\ Len(ext) <= Len(part)
                 /\ StartsAt(toLowerCase(part), Len(part) - Len(ext) + 1, ext)}
  IN IF ends = {} THEN part
     ELSE SubSeq(part, 1, Len(part) - Len(CHOOSE ext \in ends : TRUE))

\* .replace(/\b\w/g, (c) => c.toUpperCase())
CapitalizeWords(part) ==
  [i \in 1..Len(part) |->
     IF part[i] \in WordChars /\ WordBoundaryBefore(part, i)
     THEN toUpperCase(<<part[i]>>)[1]
     ELSE part[i]]

\* The readable title of one path segment.
Cleaned(part) == CapitalizeWords(StripExtension(DashesToSpaces(part)))

\* The loop over the parts: the first one that is neither a number nor a
\* common segment and whose readable title has 3 characters or more.
RECURSIVE FirstTitlePart(_)
FirstTitlePart(parts) ==
  IF parts = <<>> THEN <<>>
  ELSE IF AllDigits(Head(parts)) \/ toLowerCase(Head(parts)) \in skipSegments
       THEN FirstTitlePart(Tail(parts))
  ELSE IF Len(Cleaned(Head(parts))) >= 3 THEN Cleaned(Head(parts))
  ELSE FirstTitlePart(Tail(parts))

\* The try block of extractTitleFromUrl with the return '' behind it.
TitleOfPath(u) ==
  IF ParseUrl(u).ok THEN FirstTitlePart(PathParts(u)) ELSE InvalidUrl

\* A string new URL() rejects gives '' (the catch).
extractTitleFromUrl(u) == Caught(TitleOfPath(u), <<>>)

\* The page title after the suffix patterns, the prefix patterns and
\* .replace(/\s+/g, ' ').trim()
StrippedTitle(pageTitle) ==
  Trim(CollapseSpaces(ApplyPrefixes(1, ApplySuffixes(1, pageTitle))))

\* urlTitle && urlTitle.length > title.length
Preferred(urlTitle, str) == urlTitle # <<>> /\ Len(urlTitle) > Len(str)

\* A return of the title as it is, empty or not.
KeepEmpty(str) == str

\* title || 'Untitled'
OrUntitled(str) == IF str = <<>> THEN S("Untitled") ELSE str

\* extractTitle from the stripped title on; an exception of
\* extractTitleFromUrl, which is called for a short or generic title only,
\* would be the outcome of extractTitle.
TitleFrom(str, urlTitle) ==
  IF TooShortOrGeneric(str) /\ urlTitle = InvalidUrl THEN InvalidUrl
  ELSE OrUntitled(IF TooShortOrGeneric(str) /\ Preferred(urlTitle, str)
                  THEN urlTitle
                  ELSE str)

extractTitle(pageTitle, u) ==
  TitleFrom(StrippedTitle(pageTitle), extractTitleFromUrl(u))
-----------------------------------------------------------------------------
(* Metadata Resolver: the search adapters *)

\* A catalog's answer is read as a body: whether the field that holds the
\* candidate list is there, and the candidates.  A candidate carries its id,
\* its first title field (title.english, title_english, titles.en or title;
\* empty when absent), its other title fields in the order the adapter
\* collects them, and its cover: "url" when an image address can be built,
\* "empty" when the image fields are there without an address, "absent" when
\* the object that holds them is null.  A null element of the list is a
\* candidate with isNull set.

\* The value returned by an adapter or by searchMetadata.  found is FALSE for
\* null; threw is TRUE when the evaluation ends in an exception instead.
Null ==
  [found |-> FALSE, threw |-> FALSE, id |-> 0, title |-> <<>>,
   thumbnailUrl |-> "", source |-> ""]

Thrown == [Null EXCEPT !.threw = TRUE]

Metadata(id, titleText, thumbnailUrl, catalog) ==
  [found |-> TRUE, threw |-> FALSE, id |-> id, title |-> titleText,
   thumbnailUrl |-> thumbnailUrl, source |-> catalog]

CatchNothing(r) == r

\* try { ... } catch (error) { return null }
Catch(r) == IF r.threw THEN Null ELSE r

MIN_MATCH_THRESHOLD == Ratio(7, 10)
EXACT_MATCH == Ratio(19, 20)

Less(a, b) == a.num * b.den < b.num * a.den

\* [first, ...others].filter(t => typeof t === 'string' && t.length > 0)
AllTitles(media) == SelectSeq(<<media.title>> \o media.others, LAMBDA t : t # <<>>)

\* if (score > bestTitleScore) { bestTitleScore = score; bestTitleText = mediaTitle }
Better(score, mediaTitle, best) ==
  IF Greater(score, best.score)
  THEN [score |-> score, titleText |-> mediaTitle]
  ELSE best

\* for (const mediaTitle of allTitles) { ... }
RECURSIVE BestTitle(_, _, _, _)
BestTitle(t, allTitles, i, best) ==
  IF i > Len(allTitles) THEN best
  ELSE BestTitle(t, allTitles, i + 1,
                 Better(calculateTitleSimilarity(t, allTitles[i]), allTitles[i], best))

\* bestTitleScore and bestTitleText of one candidate.  bestTitleText starts
\* as the first title there is; a candidate that is accepted has had it
\* overwritten, its score being above 0.
BestTitleOf(t, allTitles) ==
  BestTitle(t, allTitles, 1,
            [score |-> Ratio(0, 1),
             titleText |-> IF allTitles = <<>> THEN <<>> ELSE allTitles[1]])

NoBestMatch == [threw |-> FALSE, some |-> FALSE, index |-> 0,
                score |-> Ratio(0, 1), titleText |-> <<>>]

\* Track with >= for >: a later candidate takes a tie.
TrackLatest(bestMatch, i, bestT) ==
  IF ~bestMatch.some \/ ~Less(bestT.score, bestMatch.score)
  THEN [threw |-> FALSE, some |-> TRUE, index |-> i,
        score |-> bestT.score, titleText |-> bestT.titleText]
  ELSE bestMatch

\* if (!bestMatch || bestTitleScore > bestMatch.score) bestMatch = { ... }
Track(bestMatch, i, bestT) ==
  IF ~bestMatch.some \/ Greater(bestT.score, bestMatch.score)
  THEN [threw |-> FALSE, some |-> TRUE, index |-> i,
        score |-> bestT.score, titleText |-> bestT.titleText]
  ELSE bestMatch

\* for (const media of mediaList) { ... }: the best candidate so far is
\* replaced on a strictly higher score, and the loop stops behind a candidate
\* that scores 0.95 or more.  Reading a field of a null candidate throws.
RECURSIVE ScanCandidates(_, _, _, _)
RECURSIVE ScanOn(_, _, _, _, _)
ScanCandidates(t, mediaList, i, bestMatch) ==
  IF i > Len(mediaList) THEN bestMatch
  ELSE IF mediaList[i].isNull THEN [bestMatch EXCEPT !.threw = TRUE]
  ELSE ScanOn(t, mediaList, i, bestMatch, BestTitleOf(t, AllTitles(mediaList[i])))

\* The rest of one pass of the loop, the candidate's bestT in hand.
ScanOn(t, mediaList, i, bestMatch, bestT) ==
  IF ~Less(bestT.score, EXACT_MATCH) THEN Track(bestMatch, i, bestT)
  ELSE ScanCandidates(t, mediaList, i + 1, Track(bestMatch, i, bestT))

BelowHalf(bestMatch) == ~bestMatch.some \/ Less(bestMatch.score, Ratio(1, 2))

\* The threshold of the early exit in the place of MIN_MATCH_THRESHOLD.
BelowExact(bestMatch) == ~bestMatch.some \/ Less(bestMatch.score, EXACT_MATCH)

\* if (!bestMatch || bestMatch.score < MIN_MATCH_THRESHOLD) return null
BelowThreshold(bestMatch) == ~bestMatch.some \/ Less(bestMatch.score, MIN_MATCH_THRESHOLD)

\* if (!mediaList || mediaList.length === 0) return null
NoCandidates(body) == ~body.hasList \/ body.list = <<>>

\* searchAniList behind its loop: the cover address is read from
\* media.coverImage without a guard, and handed on when it is undefined.
AniListMatch(mediaList, bestMatch) ==
  IF bestMatch.threw THEN Thrown
  ELSE IF BelowThreshold(bestMatch) THEN Null
  ELSE IF mediaList[bestMatch.index].cover = "absent" THEN Thrown
  ELSE Metadata(mediaList[bestMatch.index].id, bestMatch.titleText,
                IF mediaList[bestMatch.index].cover = "url" THEN "url" ELSE "undefined",
                "anilist")

\* searchAniList from the parsed body on.
searchAniList(t, body) ==
  Catch(IF NoCandidates(body) THEN Null
        ELSE AniListMatch(body.list, ScanCandidates(t, body.list, 1, NoBestMatch)))

\* searchJikan behind its loop.
JikanMatch(mediaList, bestMatch) ==
  IF bestMatch.threw THEN Thrown
  ELSE IF BelowThreshold(bestMatch) THEN Null
  ELSE IF mediaList[bestMatch.index].cover # "url" THEN Null
  ELSE Metadata(mediaList[bestMatch.index].id, bestMatch.titleText, "url", "mal")

\* searchJikan from the parsed body on.
searchJikan(t, body) ==
  Catch(IF NoCandidates(body) THEN Null
        ELSE JikanMatch(body.list, ScanCandidates(t, body.list, 1, NoBestMatch)))

\* searchMangaDex behind its loop.
MangaDexMatch(mangaList, bestMatch) ==
  IF bestMatch.threw THEN Thrown
  ELSE IF BelowThreshold(bestMatch) THEN Null
  ELSE IF mangaList[bestMatch.index].cover # "url" THEN Null
  ELSE Metadata(mangaList[bestMatch.index].id, bestMatch.titleText, "url", "mangadex")

\* searchMangaDex from the parsed body on.
searchMangaDex(t, body) ==
  Catch(IF NoCandidates(body) THEN Null
        ELSE MangaDexMatch(body.list, ScanCandidates(t, body.list, 1, NoBestMatch)))

\* searchOpenLibrary behind its loop: the title handed back is book.title,
\* whichever variant earned the score.
OpenLibraryMatch(bookList, bestMatch) ==
  IF bestMatch.threw THEN Thrown
  ELSE IF BelowThreshold(bestMatch) THEN Null
  ELSE IF bookList[bestMatch.index].cover # "url" THEN Null
  ELSE Metadata(bookList[bestMatch.index].id, bookList[bestMatch.index].title,
                "url", "openlibrary")

\* searchOpenLibrary from the parsed body on.
searchOpenLibrary(t, body) ==
  Catch(IF NoCandidates(body) THEN Null
        ELSE OpenLibraryMatch(body.list, ScanCandidates(t, body.list, 1, NoBestMatch)))

\* The adapter behind a catalog name.
Search(catalog, t, body) ==
  CASE catalog = "anilist"     -> searchAniList(t, body)
    [] catalog = "mal"         -> searchJikan(t, body)
    [] catalog = "mangadex"    -> searchMangaDex(t, body)
    [] catalog = "openlibrary" -> searchOpenLibrary(t, body)

\* if (!response.ok) return null
NotOk == Null

\* A rejected fetch() or response.json() inside the adapter's try block.
Rejected == Catch(Thrown)

-----------------------------------------------------------------------------
(* Metadata Resolver: the cascade *)

AnimeLikeManga ==
  [anime    |-> [primary |-> "anilist",     fallbacks |-> <<"mal", "mangadex">>],
   manga    |-> [primary |-> "anilist",     fallbacks |-> <<"mal", "mangadex">>],
   webcomic |-> [primary |-> "mangadex",    fallbacks |-> <<"anilist">>],
   novel    |-> [primary |-> "openlibrary", fallbacks |-> <<>>]]

SEARCH_STRATEGIES ==
  [anime    |-> [primary |-> "anilist",     fallbacks |-> <<"mal">>],
   manga    |-> [primary |-> "anilist",     fallbacks |-> <<"mal", "mangadex">>],
   webcomic |-> [primary |-> "mangadex",    fallbacks |-> <<"anilist">>],
   novel    |-> [primary |-> "openlibrary", fallbacks |-> <<>>]]

FallbacksFirst(strategy) == strategy.fallbacks \o <<strategy.primary>>

\* The catalogs of a strategy in the order searchMetadata calls them.
Order(strategy) == <<strategy.primary>> \o strategy.fallbacks

\* An adapter call and the request it sends: the search text and the kind it
\* asks for.  state and outcome tell how the call ended, once it has.
\* searchAniList and searchJikan ask for anime only for the category anime,
\* and the webcomic strategy calls searchAniList with 'manga'.
Request(catalog, search, type) ==
  [catalog |-> catalog, search |-> search,
   kind |-> IF catalog \in {"anilist", "mal"}
            THEN (IF type = "anime" THEN "anime" ELSE "manga")
            ELSE "",
   state |-> "pending", outcome |-> ""]

\* A cascade that asks a catalog again when its request failed.
CallAgain(made, strategy, search, type) ==
  IF made # <<>> /\ made[Len(made)].outcome \in {"network_error", "http_error"}
  THEN Append(made, Request(made[Len(made)].catalog, search, type))
  ELSE Append(made, Request(Order(strategy)[Len(made) + 1], search, type))

\* A cascade that sends the request of a catalog again, in place of the one
\* that failed, before it goes on.
RetryInPlace(made, strategy, search, type) ==
  IF made # <<>> /\ made[Len(made)].outcome \in {"network_error", "http_error"}
  THEN [made EXCEPT ![Len(made)] = Request(made[Len(made)].catalog, search, type)]
  ELSE Append(made, Request(Order(strategy)[Len(made) + 1], search, type))

\* await strategy.primary(cleanTitle, type): the call starts the adapter,
\* which sends its request.
CallNext(made, strategy, search, type) ==
  Append(made, Request(Order(strategy)[Len(made) + 1], search, type))

StepPastMatch(r, made, strategy) ==
  IF r.threw THEN "throw"
  ELSE IF Len(made) < Len(Order(strategy)) THEN "fallback"
  ELSE IF r.found THEN "return"
  ELSE "null"

\* What searchMetadata does with the value r of the adapter it awaited:
\* hand it back, go on to the next fallback, or give up.
Step(r, made, strategy) ==
  IF r.threw THEN "throw"
  ELSE IF r.found THEN "return"
  ELSE IF Len(made) < Len(Order(strategy)) THEN "fallback"
  ELSE "null"


-----------------------------------------------------------------------------
(* Metadata Resolver: the lookup by id *)

\* media.title.english || media.title.romaji || media.title.native, and the
\* like of the other catalogs: the first title field that holds a string.
FirstTitle(media) == IF AllTitles(media) = <<>> THEN <<>> ELSE AllTitles(media)[1]

\* getAniListById from the parsed body on; media is result.data?.Media.
getAniListById(media) ==
  Catch(IF media.isNull THEN Null
        ELSE IF media.cover = "absent" THEN Thrown
        ELSE Metadata(media.id, FirstTitle(media),
                      IF media.cover = "url" THEN "url" ELSE "undefined", "anilist"))

\* getJikanById from the parsed body on; media is result.data.
getJikanById(media) ==
  Catch(IF media.isNull THEN Null
        ELSE IF media.cover # "url" THEN Null
        ELSE Metadata(media.id, FirstTitle(media), "url", "mal"))

\* getMangaDexById from the parsed body on; media is result.data.
getMangaDexById(media) ==
  Catch(IF media.isNull THEN Null
        ELSE IF media.cover # "url" THEN Null
        ELSE Metadata(media.id, FirstTitle(media), "url", "mangadex"))

\* getOpenLibraryById from the parsed body on; media is the parsed book.
getOpenLibraryById(media) ==
  Catch(IF media.isNull THEN Null
        ELSE IF media.cover # "url" THEN Null
        ELSE Metadata(media.id, media.title, "url", "openlibrary"))

\* The switch of getMetadataById over the sources that have a lookup.
GetById(catalog, media) ==
  CASE catalog = "anilist"     -> getAniListById(media)
    [] catalog = "mal"         -> getJikanById(media)
    [] catalog = "mangadex"    -> getMangaDexById(media)
    [] catalog = "openlibrary" -> getOpenLibraryById(media)

\* The request of a lookup: getJikanById alone asks by kind.
Lookup(catalog, type) ==
  [catalog |-> catalog, search |-> <<>>,
   kind |-> IF catalog = "mal" THEN (IF type = "anime" THEN "anime" ELSE "manga") ELSE "",
   state |-> "pending", outcome |-> ""]
-----------------------------------------------------------------------------
(* Storage: createWork and createWaypoint over chrome.storage.local *)

\* A WaypointStore, as far as the two calls touch it: works maps the id of
\* a work to the call whose timestamp its updatedAt holds, and waypoints
\* maps the id of a waypoint to the id of its work.  The one work that can
\* be there before the calls has the id 0.
createEmptyStore == [works |-> <<>>, waypoints |-> <<>>]

\* What chrome.storage.local holds under STORAGE_KEY: nothing, or one store.
NothingStored == <<>>
Stored(value) == <<value>>

\* result[STORAGE_KEY] ?? createEmptyStore()
loadStore(held) == IF held = NothingStored THEN createEmptyStore ELSE held[1]

\* obj[key] = value
Put(obj, key, value) ==
  [k \in DOMAIN obj \cup {key} |-> IF k = key THEN value ELSE obj[k]]

\* The identifier generateId() gives the call t: no two calls get the same.
generateId(t) == t

\* createWork between its two awaits: the store loaded, with the new work.
WithWork(loaded, t) ==
  [loaded EXCEPT !.works = Put(loaded.works, generateId(t), t)]

\* createWaypoint between its two awaits: the store loaded, with the new
\* waypoint, and with the timestamp of the call on the parent work when the
\* store has it.
WithWaypoint(loaded, t, workId) ==
  [works |-> IF workId \in DOMAIN loaded.works
             THEN Put(loaded.works, workId, t)
             ELSE loaded.works,
   waypoints |-> Put(loaded.waypoints, generateId(t), workId)]

\* A call that has not been made.
NotCalled == [op |-> "", pc |-> "idle", workId |-> 0, store |-> createEmptyStore]
-----------------------------------------------------------------------------
(* The inputs of the bounded checks *)

MaxTitleWords == 2
MaxSegments == 2
MaxCandidates == 2

\* createWork and createWaypoint: the calls that can be in progress at once
MaxCalls == 3

SeqsUpTo(set, n) == UNION {[1..k -> set] : k \in 0..n}

\* detectMediaType
Urls ==
  { S(""),
    S("https://example.com/read/x"),
    S("https://mangadex.org/title/x"),
    S("https://www.novelupdates.com/series/x"),
    S("https://www.crunchyroll.com/watch/x"),
    S("https://tapas.io/novels/x") }

TitleWords == { S("Some Title"), S("Raw"), S("Volume") }

Titles == {Join(ws, S(" ")) : ws \in SeqsUpTo(TitleWords, MaxTitleWords)}

Contents ==
  { S(""),
    S("cultivation"),
    S("Watch online: subbed and dubbed episodes, streaming in 1080p"),
    S("Light novel and web novel fiction: a progression fantasy story with "
        \o "litrpg, gamelit, isekai, wuxia, xianxia and xuanhuan chapters. "
        \o "Fanfiction, romance, harem, slice of life. Prologue, epilogue, "
        \o "word count, reading time, author note, original character, "
        \o "royalroad, scribblehub, wattpad, archiveofourown, qidian, syosetu") }

\* extractProgress: the path segments of the URL, and the page titles
Segments ==
  { S("chapter-0"), S("chapter-42"), S("show-episode-5"), S("s01e05"),
    S("123"), S("7500"), S("12.5"), S("77?page=1"), S("ep10000") }

ProgressUrls ==
  {S("https://example.com") \o Concat([i \in DOMAIN segs |-> S("/") \o segs[i]]) :
     segs \in SeqsUpTo(Segments, MaxSegments)}

ProgressTitles ==
  { S(""), S("Title Chapter 42"), S("Show Episode 5"), S("Title [3]"),
    S("Vol 2 Ch. 10.5 - Site"), <<"U+7B2C", "8", "U+8A71">> }

\* extractProgressSimple: the same URLs, and titles that write the keyword
\* next to its number and in capitals
SimpleTitles ==
  { S(""), S("Title Chapter 42"), S("Show Episode 5"), S("Chapter12 of Show"),
    S("EP. 7 - Site"), S("Vol 2 Ch. 10.5 - Site"), S("Ch 0") }


\* extractTitle: page titles made of a work title with a prefix and a suffix
\* that sites add, and URLs made of path segments
TitlePrefixes == { S(""), S("Read "), S("Watch "), S("Chapter 5 - ") }

TitleCores == { S(""), S("ab"), S("Home"), S("chapter"), S("One Piece"), S("Tower  of God") }

TitleSuffixes ==
  { S(""), S(" - MangaSite"), S(" | A site with a name of over thirty letters"),
    S(" :: Site"), S(" (Site)"), <<" ", "U+3010", "U+30B5", "U+3011">>,
    S(" - Read Online"), S(" Chapter 5"), S(" Ep. 12"), S("-Episode 3 raw") }

PageTitles ==
  {pre \o core \o suf : pre \in TitlePrefixes, core \in TitleCores, suf \in TitleSuffixes}

TitleSegments == { S("manga"), S("abc"), S("one-piece"), S("5"), S("ab") }

TitleUrls ==
  {S("not a url")} \cup
  {S("https://example.com") \o Concat([i \in DOMAIN segs |-> S("/") \o segs[i]]) :
     segs \in SeqsUpTo(TitleSegments, MaxSegments)}


\* cleanTitle: work titles in one case or mixed, followed by what sites append
CleanCores == { S("One Piece"), S("one piece"), S("TOWER OF GOD"), S("") }

CleanSuffixes ==
  { S(" - Site"), S(" on site.com"), S(" Read Online"), S(" Chapter 5"),
    S(" (Manga)"), S(" Manga") }

CleanInputs ==
  {core \o Concat(sufs) : core \in CleanCores,
                          sufs \in SeqsUpTo(CleanSuffixes, MaxTitleWords)}


\* calculateTitleSimilarity: titles that normalize to the same string, to the
\* empty string, to a part of one another, and to overlapping sets of words
SimilarityTitles ==
  { S(""), S("???"), S("One Piece"), S("One Piece!"), S("ONE PIECE - Site"),
    S("One Piece Film"), S("One Piece One"), S("Piece One"), S("Film Piece"),
    S("ab cd"), S("cd ab"), S("Pie"), S("Two") }


\* The search adapters and searchMetadata: titles looked up, and what the
\* catalogs hold
SearchTitles ==
  { S("One Piece"), S("One Piece Chapter 5 - Read Online"), S("???") }

Catalogs == {"anilist", "mal", "mangadex", "openlibrary"}

Candidate(id, first, others, cover) ==
  [isNull |-> FALSE, id |-> id, title |-> first, others |-> others, cover |-> cover]

NullCandidate == [Candidate(0, <<>>, <<>>, "absent") EXCEPT !.isNull = TRUE]

Exact      == Candidate(1, S("One Piece"), << <<"U+30EF", "U+30F3">> >>, "url")
Longer     == Candidate(2, S("One Piece Film"), <<>>, "url")
Close      == Candidate(3, S("One Piece Z"), <<>>, "url")
ByOther    == Candidate(4, <<>>, <<S("Naruto"), S("One Piece")>>, "url")
NoAddress  == Candidate(5, S("One Piece"), <<>>, "empty")
NoCover    == Candidate(6, S("One Piece!"), <<>>, "absent")
Renamed    == Candidate(7, S("Wan Pisu"), << S("One Piece") >>, "url")

Candidates == {Exact, Longer, Close, ByOther, NoAddress, NoCover, NullCandidate}

NoBody == [hasList |-> FALSE, list |-> <<>>]
ListBody(list) == [hasList |-> TRUE, list |-> list]

Bodies == {NoBody} \cup {ListBody(list) : list \in SeqsUpTo(Candidates, MaxCandidates)}

\* The bodies the catalogs answer with while searchMetadata runs.
ResolveBodies ==
  { NoBody, ListBody(<<>>), ListBody(<<Exact>>), ListBody(<<Longer, Close>>),
    ListBody(<<Longer>>), ListBody(<<NoAddress>>), ListBody(<<NoCover>>),
    ListBody(<<NullCandidate>>), ListBody(<<Renamed>>) }

Answer(catalog, outcome, body) ==
  [catalog |-> catalog, outcome |-> outcome, body |-> body]

\* getMetadataById: the sources asked for (one of them unknown), and the
\* record the catalog holds under the id (NullCandidate: none)
Sources == Catalogs \cup {"elsewhere"}

Records == {Exact, ByOther, NoAddress, NoCover, NullCandidate}

\* Any strings: empty ones, addresses new URL() rejects, titles outside ASCII
AnyUrls ==
  { S(""), S("not a url"), S("//example.com/chapter-5"), S("https://"),
    S("https://example.com/abc/chapter-5"), S("https://www.mangadex.org/title/5") }

AnyTitles ==
  { S(""), S("Home"), S("One Piece Chapter 5 - Site"),
    <<"U+7B2C", "8", "U+8A71">>, S("?") }

\* createWork, createWaypoint: the calls, and what the storage holds at first
Calls == 1..MaxCalls

StoredAtFirst == {NothingStored, Stored([works |-> <<>> @@ (0 :> 0), waypoints |-> <<>>])}
-----------------------------------------------------------------------------
(* detectMediaType as a call *)

InitClassify ==
  /\ pc = "call"
  /\ source = NoValue
  /\ store = NoValue
  /\ tasks = NoValue
  /\ url \in Urls
  /\ title \in Titles
  /\ pageContent \in Contents
  /\ mediaType = NoValue
  /\ keywordScores = NoValue
  /\ detected = NoValue
  /\ progress = NoValue
  /\ cleanTitle = NoValue
  /\ calls = NoValue
  /\ response = NoValue
  /\ result = NoValue

\* An exception of getDomain would end the call before the scores are made.
Classify ==
  /\ pc = "call"
  /\ IF getDomain(url) = InvalidUrl
     THEN pc' = "threw" /\ UNCHANGED <<keywordScores, detected>>
     ELSE /\ keywordScores' = TotalScores(url, title, pageContent)
          /\ detected' = Highest(keywordScores')
          /\ pc' = "done"
  /\ UNCHANGED <<source, store, tasks, url, title, pageContent, mediaType, progress,
               cleanTitle, calls, response, result>>

NextClassify == Classify

SpecClassify == InitClassify /\ [][NextClassify]_vars

-----------------------------------------------------------------------------
(* extractProgress as a call *)

InitProgress ==
  /\ pc = "call"
  /\ source = NoValue
  /\ store = NoValue
  /\ tasks = NoValue
  /\ url \in ProgressUrls
  /\ title \in ProgressTitles
  /\ mediaType \in Range(MediaTypes)
  /\ pageContent = NoValue
  /\ keywordScores = NoValue
  /\ detected = NoValue
  /\ progress = NoValue
  /\ cleanTitle = NoValue
  /\ calls = NoValue
  /\ response = NoValue
  /\ result = NoValue

ExtractProgress ==
  /\ pc = "call"
  /\ progress' = extractProgress(url, title, mediaType)
  /\ pc' = "done"
  /\ UNCHANGED <<source, store, tasks, url, title, pageContent, mediaType, keywordScores, detected,
               cleanTitle, calls, response, result>>

NextProgress == ExtractProgress

SpecProgress == InitProgress /\ [][NextProgress]_vars

-----------------------------------------------------------------------------
(* extractProgressSimple as a call *)

InitSimple ==
  /\ pc = "call"
  /\ source = NoValue
  /\ store = NoValue
  /\ tasks = NoValue
  /\ url \in ProgressUrls
  /\ title \in SimpleTitles
  /\ mediaType = NoValue
  /\ pageContent = NoValue
  /\ keywordScores = NoValue
  /\ detected = NoValue
  /\ progress = NoValue
  /\ cleanTitle = NoValue
  /\ calls = NoValue
  /\ response = NoValue
  /\ result = NoValue

ExtractProgressSimple ==
  /\ pc = "call"
  /\ progress' = extractProgressSimple(url, title)
  /\ pc' = "done"
  /\ UNCHANGED <<source, store, tasks, url, title, pageContent, mediaType, keywordScores, detected,
                 cleanTitle, calls, response, result>>

NextSimple == ExtractProgressSimple

SpecSimple == InitSimple /\ [][NextSimple]_vars

-----------------------------------------------------------------------------
(* A search adapter as a call, from the parsed body on *)

InitSearch ==
  /\ pc = "call"
  /\ source = NoValue
  /\ store = NoValue
  /\ tasks = NoValue
  /\ title \in SearchTitles
  /\ response \in {Answer(catalog, "body", body) :
                      catalog \in Catalogs, body \in Bodies}
  /\ result = Null
  /\ url = NoValue
  /\ pageContent = NoValue
  /\ mediaType = NoValue
  /\ keywordScores = NoValue
  /\ detected = NoValue
  /\ progress = NoValue
  /\ cleanTitle = NoValue
  /\ calls = NoValue

SearchCatalog ==
  /\ pc = "call"
  /\ result' = Search(response.catalog, title, response.body)
  /\ pc' = "done"
  /\ UNCHANGED <<source, store, tasks, url, title, pageContent, mediaType, keywordScores, detected,
                 progress, cleanTitle, calls, response>>

NextSearch == SearchCatalog

SpecSearch == InitSearch /\ [][NextSearch]_vars

-----------------------------------------------------------------------------
(* searchMetadata as a process: one step per await *)

InitResolve ==
  /\ pc = "call"
  /\ source = NoValue
  /\ store = NoValue
  /\ tasks = NoValue
  /\ title \in SearchTitles
  /\ mediaType \in Range(MediaTypes)
  /\ cleanTitle = <<>>
  /\ calls = <<>>
  /\ response = Answer("", "", NoBody)
  /\ result = Null
  /\ url = NoValue
  /\ pageContent = NoValue
  /\ keywordScores = NoValue
  /\ detected = NoValue
  /\ progress = NoValue

\* searchMetadata up to its first await: the primary adapter is called with
\* the normalized title and sends its request.
SearchMetadata ==
  /\ pc = "call"
  /\ cleanTitle' = normalizeTitle(title)
  /\ calls' = CallNext(calls, SEARCH_STRATEGIES[mediaType], cleanTitle', mediaType)
  /\ pc' = "fetch"
  /\ UNCHANGED <<source, store, tasks, url, title, pageContent, mediaType, keywordScores, detected,
                 progress, response, result>>

\* The adapter awaited returns r after the catalog gave answer: searchMetadata
\* runs on to its next await or to its end.
Settle(r, answer) ==
  LET strategy == SEARCH_STRATEGIES[mediaType]
      step     == Step(r, calls, strategy)
      settled  == [calls EXCEPT ![Len(calls)].outcome = answer.outcome,
                                ![Len(calls)].state =
                                  IF r.threw THEN "threw"
                                  ELSE IF r.found THEN "match" ELSE "nomatch"]
  IN /\ response' = answer
     /\ CASE step = "return" ->
               calls' = settled /\ result' = r /\ pc' = "done"
          [] step = "fallback" ->
               /\ calls' = CallNext(settled, strategy, cleanTitle, mediaType)
               /\ pc' = "fetch"
               /\ UNCHANGED result
          [] step = "null" ->
               calls' = settled /\ result' = Null /\ pc' = "done"
          [] step = "throw" ->
               calls' = settled /\ result' = Thrown /\ pc' = "threw"
     /\ UNCHANGED <<source, store, tasks, url, title, pageContent, mediaType, keywordScores, detected,
                    progress, cleanTitle>>

Current == calls[Len(calls)].catalog

\* await fetch(...) rejects: the catalog cannot be reached.
FetchRejects ==
  /\ pc = "fetch"
  /\ Settle(Rejected, Answer(Current, "network_error", NoBody))

\* await fetch(...) resolves with a response, whose status is a success or not.
FetchResolves ==
  /\ pc = "fetch"
  /\ \E ok \in BOOLEAN :
       IF ok
       THEN /\ pc' = "json"
            /\ UNCHANGED <<source, store, tasks, url, title, pageContent, mediaType, keywordScores,
                           detected, progress, cleanTitle, calls, response, result>>
       ELSE Settle(NotOk, Answer(Current, "http_error", NoBody))

\* await response.json() rejects: the body is not JSON.
JsonRejects ==
  /\ pc = "json"
  /\ Settle(Rejected, Answer(Current, "parse_error", NoBody))

\* await response.json() resolves with the parsed body.
JsonResolves ==
  /\ pc = "json"
  /\ \E body \in ResolveBodies :
       Settle(Search(Current, cleanTitle, body), Answer(Current, "body", body))

NextResolve ==
  \/ SearchMetadata
  \/ FetchRejects
  \/ FetchResolves
  \/ JsonRejects
  \/ JsonResolves

SpecResolve == InitResolve /\ [][NextResolve]_vars

\* The cascade when every request completes: a pending fetch() settles in
\* the end, one way or the other, and so does a pending response.json().
\* The code between two awaits runs within the step that settles the first.
SpecResolveFair ==
  /\ SpecResolve
  /\ WF_vars(FetchRejects \/ FetchResolves)
  /\ WF_vars(JsonRejects \/ JsonResolves)


-----------------------------------------------------------------------------
(* extractTitle as a call *)

InitTitle ==
  /\ pc = "call"
  /\ source = NoValue
  /\ store = NoValue
  /\ tasks = NoValue
  /\ url \in TitleUrls
  /\ title \in PageTitles
  /\ pageContent = NoValue
  /\ mediaType = NoValue
  /\ keywordScores = NoValue
  /\ detected = NoValue
  /\ progress = NoValue
  /\ cleanTitle = NoValue
  /\ calls = NoValue
  /\ response = NoValue
  /\ result = NoValue

ExtractTitle ==
  /\ pc = "call"
  /\ result' = extractTitle(title, url)
  /\ pc' = IF result' = InvalidUrl THEN "threw" ELSE "done"
  /\ UNCHANGED <<source, store, tasks, url, title, pageContent, mediaType, keywordScores, detected,
               progress, cleanTitle, calls, response>>

NextTitle == ExtractTitle

SpecTitle == InitTitle /\ [][NextTitle]_vars

-----------------------------------------------------------------------------
(* cleanTitle called on a title and then on what it returned *)

InitClean ==
  /\ pc = "call"
  /\ source = NoValue
  /\ store = NoValue
  /\ tasks = NoValue
  /\ title \in CleanInputs
  /\ result = <<>>
  /\ url = NoValue
  /\ pageContent = NoValue
  /\ mediaType = NoValue
  /\ keywordScores = NoValue
  /\ detected = NoValue
  /\ progress = NoValue
  /\ cleanTitle = NoValue
  /\ calls = NoValue
  /\ response = NoValue

\* result holds the values returned so far.
CallCleanTitle ==
  /\ pc = "call"
  /\ result' = Append(result, CleanTitle(IF result = <<>> THEN title
                                         ELSE result[Len(result)]))
  /\ pc' = IF Len(result') = 2 THEN "done" ELSE "call"
  /\ UNCHANGED <<source, store, tasks, url, title, pageContent, mediaType, keywordScores, detected,
               progress, cleanTitle, calls, response>>

NextClean == CallCleanTitle

SpecClean == InitClean /\ [][NextClean]_vars

-----------------------------------------------------------------------------
(* calculateTitleSimilarity as a call *)

InitSimilarity ==
  /\ pc = "call"
  /\ source = NoValue
  /\ store = NoValue
  /\ tasks = NoValue
  /\ title \in SimilarityTitles \X SimilarityTitles
  /\ url = NoValue
  /\ pageContent = NoValue
  /\ mediaType = NoValue
  /\ keywordScores = NoValue
  /\ detected = NoValue
  /\ progress = NoValue
  /\ cleanTitle = NoValue
  /\ calls = NoValue
  /\ response = NoValue
  /\ result = NoValue

CalculateTitleSimilarity ==
  /\ pc = "call"
  /\ result' = calculateTitleSimilarity(title[1], title[2])
  /\ pc' = "done"
  /\ UNCHANGED <<source, store, tasks, url, title, pageContent, mediaType, keywordScores, detected,
               progress, cleanTitle, calls, response>>

NextSimilarity == CalculateTitleSimilarity

SpecSimilarity == InitSimilarity /\ [][NextSimilarity]_vars

-----------------------------------------------------------------------------
(* getMetadataById as a process: one step per await *)

InitById ==
  /\ pc = "call"
  /\ source \in Sources
  /\ mediaType \in Range(MediaTypes)
  /\ calls = <<>>
  /\ response = Answer("", "", NoBody)
  /\ result = Null
  /\ store = NoValue
  /\ tasks = NoValue
  /\ url = NoValue
  /\ title = NoValue
  /\ pageContent = NoValue
  /\ keywordScores = NoValue
  /\ detected = NoValue
  /\ progress = NoValue
  /\ cleanTitle = NoValue

\* getMetadataById up to the await of fetch in the lookup it calls; for a
\* source without a lookup it returns null at once.
GetMetadataById ==
  /\ pc = "call"
  /\ IF source \in Catalogs
     THEN /\ calls' = <<Lookup(source, mediaType)>>
          /\ pc' = "fetch"
          /\ UNCHANGED result
     ELSE /\ result' = Null
          /\ pc' = "done"
          /\ UNCHANGED calls
  /\ UNCHANGED <<source, store, tasks, url, title, pageContent, mediaType,
                 keywordScores, detected, progress, cleanTitle, response>>

\* The lookup awaited returns r after the catalog gave answer.
SettleById(r, answer) ==
  /\ response' = answer
  /\ calls' = [calls EXCEPT ![1].outcome = answer.outcome,
                            ![1].state = IF r.threw THEN "threw"
                                         ELSE IF r.found THEN "match" ELSE "nomatch"]
  /\ result' = r
  /\ pc' = IF r.threw THEN "threw" ELSE "done"
  /\ UNCHANGED <<source, store, tasks, url, title, pageContent, mediaType,
                 keywordScores, detected, progress, cleanTitle>>

ByIdFetchRejects ==
  /\ pc = "fetch"
  /\ SettleById(Rejected, Answer(source, "network_error", NoBody))

ByIdFetchResolves ==
  /\ pc = "fetch"
  /\ \E ok \in BOOLEAN :
       IF ok
       THEN /\ pc' = "json"
            /\ UNCHANGED <<source, store, tasks, url, title, pageContent, mediaType,
                           keywordScores, detected, progress, cleanTitle, calls,
                           response, result>>
       ELSE SettleById(NotOk, Answer(source, "http_error", NoBody))

ByIdJsonRejects ==
  /\ pc = "json"
  /\ SettleById(Rejected, Answer(source, "parse_error", NoBody))

ByIdJsonResolves ==
  /\ pc = "json"
  /\ \E media \in Records :
       SettleById(GetById(source, media), Answer(source, "body", ListBody(<<media>>)))

NextById ==
  \/ GetMetadataById
  \/ ByIdFetchRejects
  \/ ByIdFetchResolves
  \/ ByIdJsonRejects
  \/ ByIdJsonResolves

SpecById == InitById /\ [][NextById]_vars

-----------------------------------------------------------------------------
(* detectMediaType, extractProgress or extractTitle called on any strings *)

InitTotal ==
  /\ pc = "call"
  /\ url \in AnyUrls
  /\ title \in AnyTitles
  /\ pageContent \in {S(""), S("cultivation")}
  /\ mediaType \in Range(MediaTypes)
  /\ keywordScores = NoValue
  /\ detected = NoValue
  /\ progress = NoValue
  /\ result = <<>>
  /\ cleanTitle = NoValue
  /\ calls = NoValue
  /\ response = NoValue
  /\ source = NoValue
  /\ store = NoValue
  /\ tasks = NoValue

NextTotal ==
  \/ Classify
  \/ ExtractProgress
  \/ ExtractTitle

SpecTotal == InitTotal /\ [][NextTotal]_vars

-----------------------------------------------------------------------------
(* createWork and createWaypoint as processes: one step per await *)

InitStore ==
  /\ pc = "call"
  /\ store \in StoredAtFirst
  /\ tasks = [t \in Calls |-> NotCalled]
  /\ source = NoValue
  /\ url = NoValue
  /\ title = NoValue
  /\ pageContent = NoValue
  /\ mediaType = NoValue
  /\ keywordScores = NoValue
  /\ detected = NoValue
  /\ progress = NoValue
  /\ cleanTitle = NoValue
  /\ calls = NoValue
  /\ response = NoValue
  /\ result = NoValue

OthersUnchanged ==
  UNCHANGED <<pc, source, url, title, pageContent, mediaType, keywordScores, detected,
              progress, cleanTitle, calls, response, result>>

\* The works a caller can name: the one stored at first and those whose
\* createWork has returned.
KnownWorks ==
  {0} \cup {generateId(t) : t \in {c \in Calls : tasks[c].op = "createWork"
                                                /\ tasks[c].pc = "returned"}}

\* createWork(data) up to its first await: loadStore() sends its get.
CallCreateWork(t) ==
  /\ tasks[t].pc = "idle"
  /\ tasks' = [tasks EXCEPT ![t] = [NotCalled EXCEPT !.op = "createWork", !.pc = "load"]]
  /\ UNCHANGED store
  /\ OthersUnchanged

\* createWaypoint(data) up to its first await.
CallCreateWaypoint(t) ==
  /\ tasks[t].pc = "idle"
  /\ \E workId \in KnownWorks :
       tasks' = [tasks EXCEPT ![t] = [NotCalled EXCEPT !.op = "createWaypoint",
                                                       !.pc = "load",
                                                       !.workId = workId]]
  /\ UNCHANGED store
  /\ OthersUnchanged

\* await loadStore() resolves with what the storage holds now; the call
\* adds its record to the copy it got and sends the whole copy with
\* saveStore().
LoadResolves(t) ==
  /\ tasks[t].pc = "load"
  /\ tasks' = [tasks EXCEPT
                 ![t].pc = "save",
                 ![t].store = IF tasks[t].op = "createWork"
                              THEN WithWork(loadStore(store), t)
                              ELSE WithWaypoint(loadStore(store), t, tasks[t].workId)]
  /\ UNCHANGED store
  /\ OthersUnchanged

\* await saveStore(store) resolves: the storage holds the copy of the call,
\* and the call returns its record.
SaveResolves(t) ==
  /\ tasks[t].pc = "save"
  /\ store' = Stored(tasks[t].store)
  /\ tasks' = [tasks EXCEPT ![t].pc = "returned"]
  /\ OthersUnchanged

NextStore ==
  \E t \in Calls :
    \/ CallCreateWork(t)
    \/ CallCreateWaypoint(t)
    \/ LoadResolves(t)
    \/ SaveResolves(t)

SpecStore == InitStore /\ [][NextStore]_vars
-----------------------------------------------------------------------------
(* Claims about detectMediaType, checked under SpecClassify *)

\* The keyword part and the known-site part of a category's total, for the
\* arguments of the call.
KeywordScoreOf(type) ==
  KeywordPoints(KEYWORDS[type], AllText(url, title, pageContent))

SiteBonusOf(type) == keywordScores[type] - KeywordScoreOf(type)

SiteListMatches(type) ==
  \E i \in DOMAIN SITES[type] :
    SiteMatches(SITES[type][i], getDomain(url), toLowerCase(url))

TopScore == CHOOSE s \in {keywordScores[t] : t \in Range(MediaTypes)} :
              \A t \in Range(MediaTypes) : keywordScores[t] <= s

Tied == {t \in Range(MediaTypes) : keywordScores[t] = TopScore}

EarliestTied ==
  MediaTypes[CHOOSE i \in DOMAIN MediaTypes :
               /\ MediaTypes[i] \in Tied
               /\ \A j \in 1..(i - 1) : MediaTypes[j] \notin Tied]

\* C6: detectMediaType always returns one of anime, manga, webcomic, novel,
\* and returns manga when every category's total score is zero.
C6_AlwaysACategory ==
  pc = "done" =>
    /\ detected \in Range(MediaTypes)
    /\ (\A t \in Range(MediaTypes) : keywordScores[t] = 0) => detected = "manga"

C6_Witness ==
  /\ pc = "done"
  /\ \A t \in Range(MediaTypes) : keywordScores[t] = 0
  /\ url # <<>>
  /\ detected = "manga"

\* C7 as stated: whenever two or more categories share the highest total,
\* the earliest of them in the order anime, manga, webcomic, novel is returned.
C7_TieToEarliest_Original ==
  (pc = "done" /\ Cardinality(Tied) >= 2) => detected = EarliestTied

\* C7 as amended: whenever two or more categories share the highest total and
\* that total is greater than zero, the earliest of them in the order anime,
\* manga, webcomic, novel is returned.
C7_TieToEarliest ==
  (pc = "done" /\ Cardinality(Tied) >= 2 /\ TopScore > 0) => detected = EarliestTied

C7_Witness ==
  /\ pc = "done"
  /\ TopScore > 0
  /\ Tied = {"webcomic", "novel"}
  /\ detected = "webcomic"

\* C8: the known-site check adds exactly 50 to a category's score when at
\* least one entry of its site list matches the URL, and 0 otherwise, however
\* many entries match.
C8_FlatSiteBonus ==
  pc = "done" =>
    \A t \in Range(MediaTypes) :
      SiteBonusOf(t) = IF SiteListMatches(t) THEN 50 ELSE 0

-----------------------------------------------------------------------------
(* Claims about extractProgress, checked under SpecProgress *)

\* No pattern of the category's list yields a plausible number from the URL
\* or from the title: the call reaches the last-resort step.
ReachesLastResort ==
  LET isAnime  == mediaType = "anime"
      patterns == IF isAnime THEN EPISODE_PATTERNS ELSE CHAPTER_PATTERNS
  IN /\ ~TryPatterns(toLowerCase(url), patterns, 1, isAnime).found
     /\ ~TryPatterns(toLowerCase(title), patterns, 1, isAnime).found

\* C10: the result of extractProgress sets at most one field, chosen by the
\* category alone: never chapter for anime, never episode for manga,
\* webcomic and novel, on every path including the last-resort step.
C10_FieldByCategory ==
  pc = "done" =>
    /\ Cardinality(DOMAIN progress) <= 1
    /\ mediaType = "anime" => DOMAIN progress \subseteq {"episode"}
    /\ mediaType # "anime" => DOMAIN progress \subseteq {"chapter"}

C10_Witness ==
  /\ pc = "done"
  /\ mediaType = "anime"
  /\ ReachesLastResort
  /\ DOMAIN progress = {"episode"}


\* The value of the field the result sets, when it sets one.
MarkValue == progress[CHOOSE f \in DOMAIN progress : TRUE]

\* 0 < value < 10000
InsideRange(value) ==
  /\ value.whole \in 0..9999
  /\ value.whole = 0 => value.frac # <<>>

\* C11 as stated: a field that is present holds an integer strictly between
\* 0 and 10000.
C11_IntegerInRange_Original ==
  (pc = "done" /\ DOMAIN progress # {}) =>
    InsideRange(MarkValue) /\ MarkValue.frac = <<>>

\* C11: a field that is present holds a number strictly between 0 and 10000;
\* an episode is an integer, a chapter may have a fractional part.
C11_InRange ==
  (pc = "done" /\ DOMAIN progress # {}) =>
    /\ InsideRange(MarkValue)
    /\ "episode" \in DOMAIN progress => MarkValue.frac = <<>>

\* A URL capture above the range is passed over and a chapter with a
\* fractional part is returned from the title.
C11_Witness ==
  /\ pc = "done"
  /\ url = S("https://example.com/ep10000")
  /\ DOMAIN progress = {"chapter"}
  /\ progress.chapter.frac # <<>>

\* The number captured by pattern i in str: group 2 when it is there.
CaptureAt(str, patterns, i) ==
  parseFloat(IF Match(str, patterns[i]).g2 # <<>>
             THEN Match(str, patterns[i]).g2
             ELSE Match(str, patterns[i]).g1)

\* Pattern i matches str and its capture is a number in (0, 10000).
PlausibleAt(str, patterns, i) ==
  Match(str, patterns[i]).found /\ InsideRange(CaptureAt(str, patterns, i))

\* The first pattern of the list with a plausible capture in str; 0 when
\* there is none.
FirstPlausible(str, patterns) ==
  IF \E i \in DOMAIN patterns : PlausibleAt(str, patterns, i)
  THEN CHOOSE i \in DOMAIN patterns :
         /\ PlausibleAt(str, patterns, i)
         /\ \A j \in 1..(i - 1) : ~PlausibleAt(str, patterns, j)
  ELSE 0

\* The result sets field to value and nothing else.
IsMark(field, value) == DOMAIN progress = {field} /\ progress[field] = value

\* The result is the capture of pattern i in str: floored under episode for
\* anime, as it is under chapter otherwise.
IsCapture(str, patterns, i) ==
  IF mediaType = "anime"
  THEN IsMark("episode", Integer(CaptureAt(str, patterns, i).whole))
  ELSE IsMark("chapter", CaptureAt(str, patterns, i))

\* The standalone integer segment the last-resort step looks at: the first
\* one of the URL.
FirstSegment == MatchDelimited(url, {"/"}, {"/", "?"}, TRUE)

\* The result is what the last-resort step makes of the URL.
IsLastResort ==
  IF FirstSegment.found /\ ParseNat(FirstSegment.g1) \in 1..4999
  THEN IsMark(IF mediaType = "anime" THEN "episode" ELSE "chapter",
              Integer(ParseNat(FirstSegment.g1)))
  ELSE DOMAIN progress = {}

\* C12: the result is the capture of the first pattern, in list order, with
\* a plausible capture in the URL; when the URL has none, that of the first
\* pattern with a plausible capture in the title; when the title has none
\* either, what the last-resort step makes of the URL.
C12_ChainOrder ==
  pc = "done" =>
    LET patterns == IF mediaType = "anime" THEN EPISODE_PATTERNS ELSE CHAPTER_PATTERNS
        inUrl    == FirstPlausible(toLowerCase(url), patterns)
        inTitle  == FirstPlausible(toLowerCase(title), patterns)
    IN IF inUrl # 0 THEN IsCapture(toLowerCase(url), patterns, inUrl)
       ELSE IF inTitle # 0 THEN IsCapture(toLowerCase(title), patterns, inTitle)
       ELSE IsLastResort

\* The URL and the title hold different plausible chapters, and the one of
\* the URL is returned.
C12_Witness ==
  /\ pc = "done"
  /\ mediaType = "manga"
  /\ url = S("https://example.com/chapter-42")
  /\ title = S("Vol 2 Ch. 10.5 - Site")
  /\ IsMark("chapter", Integer(42))

\* The standalone integer segments of the URL path that are in (0, 5000).
ChapterLikeSegments ==
  {ParseNat(part) : part \in {q \in Range(PathParts(url)) : AllDigits(q)}} \cap 1..4999

\* C13: when the pattern loops yield nothing and the path of the URL has a
\* standalone integer segment in (0, 5000), the result is such a segment,
\* under episode for anime and under chapter otherwise; and the last-resort
\* step never returns 5000 or more.
C13_LastResort ==
  (pc = "done" /\ ReachesLastResort) =>
    /\ ChapterLikeSegments # {} =>
         \E n \in ChapterLikeSegments :
           IsMark(IF mediaType = "anime" THEN "episode" ELSE "chapter", Integer(n))
    /\ DOMAIN progress # {} => MarkValue.whole < 5000

\* The text captured by pattern i in str: group 2 when it is there.
CaptureText(str, patterns, i) ==
  IF Match(str, patterns[i]).g2 # <<>>
  THEN Match(str, patterns[i]).g2
  ELSE Match(str, patterns[i]).g1

\* The digits of numStr before the point and those behind it.
WholeDigits(numStr) ==
  IF IndexOf(numStr, <<".">>) = 0 THEN numStr
  ELSE SubSeq(numStr, 1, IndexOf(numStr, <<".">>) - 1)

FracDigits(numStr) ==
  IF IndexOf(numStr, <<".">>) = 0 THEN <<>>
  ELSE SubSeq(numStr, IndexOf(numStr, <<".">>) + 1, Len(numStr))

\* The result is the chapter that numStr writes, fractional part included.
ChapterAsWritten(numStr) ==
  /\ DOMAIN progress = {"chapter"}
  /\ progress.chapter.whole = ParseNat(WholeDigits(numStr))
  /\ progress.chapter.frac = StripZeros(FracDigits(numStr))

\* The capture the pattern loops return, inUrl and inTitle being the first
\* plausible pattern of the URL and of the title: the one of the URL first.
ChapterOfLoops(patterns, inUrl, inTitle) ==
  IF inUrl # 0
  THEN ChapterAsWritten(CaptureText(toLowerCase(url), patterns, inUrl))
  ELSE inTitle # 0 =>
         ChapterAsWritten(CaptureText(toLowerCase(title), patterns, inTitle))

\* C25: for anime the episode returned is always an integer; for manga,
\* webcomic and novel the chapter that the pattern loops capture is returned
\* as it is written, a fractional part such as that of 12.5 included.
C25_FloorForAnimeOnly ==
  pc = "done" =>
    IF mediaType = "anime"
    THEN "episode" \in DOMAIN progress => progress.episode.frac = <<>>
    ELSE ChapterOfLoops(CHAPTER_PATTERNS,
                        FirstPlausible(toLowerCase(url), CHAPTER_PATTERNS),
                        FirstPlausible(toLowerCase(title), CHAPTER_PATTERNS))

\* The chapter 10.5 of a title is returned for a novel with its fraction.
C25_Witness ==
  /\ pc = "done"
  /\ mediaType = "novel"
  /\ url = S("https://example.com")
  /\ title = S("Vol 2 Ch. 10.5 - Site")
  /\ progress = [chapter |-> [whole |-> 10, frac |-> <<"5">>]]

-----------------------------------------------------------------------------
(* Claims about extractProgressSimple, checked under SpecSimple *)

\* The attempts of extractProgressSimple in the order the claim gives them:
\* attempt 2i - 1 matches pattern i against the URL, attempt 2i against the
\* title.
AttemptPattern(k) == allPatterns[(k + 1) \div 2]
AttemptText(k) == IF k % 2 = 1 THEN url ELSE title
AttemptMatch(k) == MatchSimple(AttemptText(k), AttemptPattern(k))

\* Attempt k captures an integer in (0, 10000).
AttemptSucceeds(k) ==
  /\ AttemptMatch(k).found
  /\ ParseNat(AttemptMatch(k).g1) \in 1..9999

\* The first attempt that succeeds; 0 when none does.
FirstAttempt ==
  IF \E k \in 1..(2 * Len(allPatterns)) : AttemptSucceeds(k)
  THEN CHOOSE k \in 1..(2 * Len(allPatterns)) :
         AttemptSucceeds(k) /\ \A j \in 1..(k - 1) : ~AttemptSucceeds(j)
  ELSE 0

\* The result is the capture of attempt k, under episode when the source of
\* its pattern contains "ep" and under chapter otherwise; empty for k = 0.
IsAttempt(k) ==
  IF k = 0 THEN DOMAIN progress = {}
  ELSE IsMark(IF Includes(toLowerCase(S(AttemptPattern(k))), S("ep"))
              THEN "episode" ELSE "chapter",
              Integer(ParseNat(AttemptMatch(k).g1)))

\* C26: extractProgressSimple tries its patterns in list order, under each
\* pattern the URL and then the title, and returns the first integer capture
\* in (0, 10000): as episode exactly when the pattern's source contains
\* "ep", as chapter otherwise, never both; and nothing when no attempt
\* succeeds.
C26_SimpleOrder == pc = "done" => IsAttempt(FirstAttempt)

\* The URL writes a chapter that the first pattern takes, the title an
\* episode: the chapter of the URL is returned.
C26_Witness ==
  /\ pc = "done"
  /\ url = S("https://example.com/chapter-42")
  /\ title = S("Show Episode 5")
  /\ progress = [chapter |-> Integer(42)]

\* Under a pattern whose capture in the URL is out of range the title is
\* tried: the episode of the title is returned.
C26_WitnessTitle ==
  /\ pc = "done"
  /\ url = S("https://example.com/ep10000")
  /\ title = S("EP. 7 - Site")
  /\ progress = [episode |-> Integer(7)]

-----------------------------------------------------------------------------
(* Claims about the Title Extractor *)

\* C14: when the page title, after the suffix and prefix patterns are
\* removed, is shorter than 3 characters or a generic word, and
\* extractTitleFromUrl yields a non-empty title, extractTitle returns the
\* title derived from the URL.
C14_UrlFallback ==
  (/\ pc = "done"
   /\ TooShortOrGeneric(StrippedTitle(title))
   /\ extractTitleFromUrl(url) # <<>>)
    => result = extractTitleFromUrl(url)

\* The stripped page title is degenerate and the URL gives no title.
BothFail(stripped, urlTitle) ==
  pc = "done" /\ TooShortOrGeneric(stripped) /\ urlTitle = <<>>

UntitledOr(stripped) == IF stripped = <<>> THEN S("Untitled") ELSE stripped

\* C15 as stated: when the stripped page title is degenerate and no title
\* can be derived from the URL, extractTitle returns "Untitled".
C15_Untitled_Original ==
  BothFail(StrippedTitle(title), extractTitleFromUrl(url)) => result = S("Untitled")

\* C15: when the stripped page title is degenerate and no title can be
\* derived from the URL, extractTitle returns "Untitled" if the stripped
\* title is empty, and the stripped title itself otherwise.
C15_Untitled ==
  BothFail(StrippedTitle(title), extractTitleFromUrl(url)) =>
    result = UntitledOr(StrippedTitle(title))

C15_Witness ==
  /\ BothFail(StrippedTitle(title), extractTitleFromUrl(url))
  /\ title # <<>>
  /\ result = S("Untitled")

-----------------------------------------------------------------------------
(* Claims about the Title Normalizer *)

\* C16: cleanTitle is idempotent: cleaning what cleanTitle returned changes
\* nothing, clean(clean(t)) = clean(t).
C16_Idempotent == pc = "done" => result[2] = result[1]

-----------------------------------------------------------------------------
(* Claims about the Similarity Scorer *)

\* Two scores are the same number.
SameScore(a, b) == a.num * b.den = b.num * a.den

\* C17: for every title t, similarity(t, t) = 1, also when t normalizes to
\* the empty string.
C17_Reflexive ==
  (pc = "done" /\ title[1] = title[2]) => SameScore(result, Ratio(1, 1))

C17_Witness ==
  /\ pc = "done"
  /\ title[1] = title[2]
  /\ title[1] # <<>>
  /\ normalizeTitle(title[1]) = <<>>
  /\ SameScore(result, Ratio(1, 1))

\* One normalized title is a part of the other, and they differ.
Contained(norm1, norm2) ==
  /\ norm1 # norm2
  /\ norm1 # <<>>
  /\ norm2 # <<>>
  /\ Includes(norm1, norm2) \/ Includes(norm2, norm1)

\* C18: similarity is symmetric, similarity(a, b) = similarity(b, a), on each
\* of its branches.
C18_Symmetric ==
  pc = "done" => SameScore(result, calculateTitleSimilarity(title[2], title[1]))

C18_Witness ==
  /\ pc = "done"
  /\ Contained(normalizeTitle(title[1]), normalizeTitle(title[2]))
  /\ Len(normalizeTitle(title[1])) > Len(normalizeTitle(title[2]))
  /\ SameScore(result, calculateTitleSimilarity(title[2], title[1]))
  /\ ~SameScore(result, Ratio(1, 1))
  /\ ~SameScore(result, Ratio(0, 1))

\* The whitespace-delimited tokens of a normalized title that are longer than
\* 2 characters.
Tokens(norm) ==
  { SubSeq(norm, i, j) : <<i, j>> \in
      { ij \in (1..Len(norm)) \X (1..Len(norm)) :
          /\ ij[2] - ij[1] + 1 > 2
          /\ \A k \in ij[1]..ij[2] : norm[k] \notin SpaceChars
          /\ ij[1] = 1 \/ norm[ij[1] - 1] \in SpaceChars
          /\ ij[2] = Len(norm) \/ norm[ij[2] + 1] \in SpaceChars } }

\* |intersection| / |union| of two token sets; 0 when there is no token at all.
Jaccard(tokens1, tokens2) ==
  IF tokens1 \cup tokens2 = {} THEN Ratio(0, 1)
  ELSE Ratio(Cardinality(tokens1 \cap tokens2), Cardinality(tokens1 \cup tokens2))

ShorterOverLonger(norm1, norm2) ==
  IF Len(norm1) < Len(norm2) THEN Ratio(Len(norm1), Len(norm2))
  ELSE Ratio(Len(norm2), Len(norm1))

\* The score in the stated order of priority.
StatedScore(norm1, norm2) ==
  IF norm1 = norm2 THEN Ratio(1, 1)
  ELSE IF norm1 = <<>> \/ norm2 = <<>> THEN Ratio(0, 1)
  ELSE IF Contained(norm1, norm2) THEN ShorterOverLonger(norm1, norm2)
  ELSE Jaccard(Tokens(norm1), Tokens(norm2))

InUnitInterval(score) == score.den > 0 /\ score.num >= 0 /\ score.num <= score.den

\* C19: similarity(a, b) is 1 when the normalized titles are equal, else 0
\* when one of them is empty, else len(shorter)/len(longer) when one is a
\* substring of the other, whatever the token overlap would score, else the
\* Jaccard ratio of the sets of tokens longer than 2 characters; it stays
\* within [0, 1].
C19_PriorityOrder ==
  pc = "done" =>
    /\ SameScore(result, StatedScore(normalizeTitle(title[1]), normalizeTitle(title[2])))
    /\ InUnitInterval(result)

\* Containment decides although the token overlap would score higher.
ContainmentWins(norm1, norm2) ==
  /\ Contained(norm1, norm2)
  /\ Greater(Jaccard(Tokens(norm1), Tokens(norm2)), ShorterOverLonger(norm1, norm2))
  /\ SameScore(result, ShorterOverLonger(norm1, norm2))

C19_Witness ==
  pc = "done" /\ ContainmentWins(normalizeTitle(title[1]), normalizeTitle(title[2]))

-----------------------------------------------------------------------------
(* Claims about the three extractors together *)

\* C22: detectMediaType, extractProgress and extractTitle raise no error on
\* any input, empty strings and unparseable URLs included: the call ends
\* with a value; and for a URL that cannot be parsed getDomain gives the
\* empty domain and extractTitleFromUrl the empty title.
C22_Total ==
  /\ pc # "threw"
  /\ result # InvalidUrl
  /\ ~ParseUrl(url).ok =>
       getDomain(url) = <<>> /\ extractTitleFromUrl(url) = <<>>

\* extractTitle has turned to a URL that cannot be parsed and returned.
C22_Witness ==
  /\ pc = "done"
  /\ url # <<>>
  /\ ~ParseUrl(url).ok
  /\ title # <<>>
  /\ TooShortOrGeneric(StrippedTitle(title))
  /\ result = StrippedTitle(title)
-----------------------------------------------------------------------------
(* Claims about searchMetadata *)

\* The order of a category as its strategy spells it.
PrimaryThenFallbacks ==
  <<SEARCH_STRATEGIES[mediaType].primary>> \o SEARCH_STRATEGIES[mediaType].fallbacks

CalledInOrder ==
  /\ Len(calls) <= Len(PrimaryThenFallbacks)
  /\ \A i \in DOMAIN calls : calls[i].catalog = PrimaryThenFallbacks[i]

\* C1: a finished searchMetadata has called the catalogs of the category in
\* the order primary, then fallbacks in list order; every call before the last
\* ended with no match; when it returns a match, that is what the adapter of
\* the last catalog called made of the catalog's answer; and it returns null
\* exactly when every catalog of the strategy was called and none matched.
C1_FirstMatchOrNull ==
  pc = "done" =>
    /\ CalledInOrder
    /\ \A i \in 1..(Len(calls) - 1) : calls[i].state = "nomatch"
    /\ IF result.found
       THEN /\ calls[Len(calls)].state = "match"
            /\ result.source = calls[Len(calls)].catalog
            /\ response.catalog = calls[Len(calls)].catalog
            /\ response.outcome = "body"
            /\ result = Search(response.catalog, cleanTitle, response.body)
       ELSE /\ Len(calls) = Len(PrimaryThenFallbacks)
            /\ calls[Len(calls)].state = "nomatch"

\* The second fallback's match is returned after two catalogs had none.
C1_Witness ==
  /\ pc = "done"
  /\ result.found
  /\ result.source = "mangadex"
  /\ Len(calls) = 3
  /\ calls[1].state = "nomatch"
  /\ calls[2].state = "nomatch"

\* C2: at any moment at most one adapter call is pending, it is the last one
\* made, and it is pending exactly while searchMetadata awaits; every call
\* made before the last one has ended with no match, so nothing is requested
\* behind a match or beside a pending request.
C2_OneAtATime ==
  /\ Cardinality({i \in DOMAIN calls : calls[i].state = "pending"}) <= 1
  /\ \A i \in 1..(Len(calls) - 1) : calls[i].state = "nomatch"
  /\ pc \in {"fetch", "json"} <=> (calls # <<>> /\ calls[Len(calls)].state = "pending")

\* The third catalog is being asked, the two before it having ended.
C2_Witness ==
  /\ pc = "fetch"
  /\ Len(calls) = 3
  /\ calls[3].state = "pending"
  /\ calls[1].outcome = "body"
  /\ calls[2].outcome = "body"

FailureOutcomes == {"network_error", "http_error", "parse_error"}

Malformed(body) == \E i \in DOMAIN body.list : body.list[i].isNull

\* The call that the last answer belongs to.
Answered == CHOOSE i \in DOMAIN calls : calls[i].catalog = response.catalog

\* The call i ended with no match and searchMetadata went on behind it: to
\* the next catalog of the order or, behind the last, to returning null.
WentOn(i) ==
  /\ calls[i].state = "nomatch"
  /\ IF i < Len(PrimaryThenFallbacks)
     THEN Len(calls) > i
     ELSE pc = "done" /\ ~result.found

\* C3: searchMetadata never ends in an exception; a call whose request ended
\* in a network exception, a non-success status or an unreadable body, and a
\* call answered by a body with a null candidate, ends with no match, and
\* searchMetadata goes on to the next fallback.
C3_FailuresAreNoMatch ==
  /\ pc # "threw"
  /\ ~result.threw
  /\ \A i \in DOMAIN calls :
       calls[i].outcome \in FailureOutcomes => WentOn(i)
  /\ (response.outcome = "body" /\ Malformed(response.body)) => WentOn(Answered)

\* Two catalogs fail, one by status and one by a network exception, and the
\* match of the third is returned.
C3_Witness ==
  /\ pc = "done"
  /\ result.found
  /\ Len(calls) = 3
  /\ calls[1].outcome = "http_error"
  /\ calls[2].outcome = "network_error"

\* The order behind each category as the specification has it.
StatedOrder ==
  [anime |-> <<"anilist", "mal", "mangadex">>,
   manga |-> <<"anilist", "mal", "mangadex">>,
   novel |-> <<"openlibrary">>]

\* The order behind each category as the strategy table has it.
ActualOrder ==
  [anime |-> <<"anilist", "mal">>,
   manga |-> <<"anilist", "mal", "mangadex">>,
   novel |-> <<"openlibrary">>]

\* The calls made follow order, and a search that returned null made them all.
Follows(order) ==
  /\ Len(calls) <= Len(order)
  /\ \A i \in DOMAIN calls : calls[i].catalog = order[i]
  /\ (pc = "done" /\ ~result.found) => Len(calls) = Len(order)

\* C5 as stated: anime and manga both go AniList, Jikan, MangaDex, and novel
\* goes to Open Library alone.
C5_CatalogOrder_Original ==
  mediaType \in DOMAIN StatedOrder => Follows(StatedOrder[mediaType])

\* C5: manga goes AniList, Jikan, MangaDex; anime goes AniList, then Jikan,
\* and ends there; novel goes to Open Library alone.
C5_CatalogOrder ==
  mediaType \in DOMAIN ActualOrder => Follows(ActualOrder[mediaType])

\* An anime search returns null behind two calls.
C5_Witness ==
  /\ pc = "done"
  /\ ~result.found
  /\ mediaType = "anime"
  /\ Len(calls) = 2
  /\ calls[2].catalog = "mal"

-----------------------------------------------------------------------------
(* Claims about the search adapters *)

\* Some title of the candidate scores n/d or more against t.
Reaches(t, media, n, d) ==
  \E k \in DOMAIN AllTitles(media) :
    AtLeast(calculateTitleSimilarity(t, AllTitles(media)[k]), n, d)

\* The loop gets to candidate i: no candidate before it is null or scores
\* 0.95 or more.
Examined(t, list, i) ==
  \A j \in 1..(i - 1) : ~list[j].isNull /\ ~Reaches(t, list[j], 19, 20)

\* C4: an adapter that returns a match returns a candidate it examined whose
\* best title scores 0.7 or more; when no candidate of the list scores 0.7
\* (or there is none) it returns no match.
C4_Threshold ==
  pc = "done" =>
    /\ result.found =>
         \E i \in DOMAIN response.body.list :
           /\ Examined(title, response.body.list, i)
           /\ ~response.body.list[i].isNull
           /\ Reaches(title, response.body.list[i], 7, 10)
           /\ result.id = response.body.list[i].id
    /\ (\A i \in DOMAIN response.body.list :
          \/ response.body.list[i].isNull
          \/ ~Reaches(title, response.body.list[i], 7, 10))
         => ~result.found

\* A candidate below the threshold is passed over for one above it.
C4_Witness ==
  /\ pc = "done"
  /\ title = S("One Piece")
  /\ response.body.list = <<Longer, Close>>
  /\ result.found
  /\ result.id = 3


\* The scores of a candidate's title variants against t, and 0 for none.
VariantScores(t, media) ==
  {calculateTitleSimilarity(t, AllTitles(media)[k]) : k \in DOMAIN AllTitles(media)}
    \cup {Ratio(0, 1)}

\* The score of a candidate: that of its best-scoring title variant.
TopVariant(t, media) ==
  CHOOSE s \in VariantScores(t, media) :
    \A o \in VariantScores(t, media) : ~Greater(o, s)

\* The last candidate examined: the first that scores 0.95 or more, or the
\* last of the list.
StopAt(tops) ==
  IF \E i \in DOMAIN tops : ~Less(tops[i], EXACT_MATCH)
  THEN CHOOSE i \in DOMAIN tops :
         /\ ~Less(tops[i], EXACT_MATCH)
         /\ \A j \in 1..(i - 1) : Less(tops[j], EXACT_MATCH)
  ELSE Len(tops)

\* The earliest of the candidates examined that has the highest score.
Kept(tops) ==
  CHOOSE i \in 1..StopAt(tops) :
    /\ \A j \in 1..StopAt(tops) : ~Greater(tops[j], tops[i])
    /\ \A j \in 1..(i - 1) : Less(tops[j], tops[i])

\* The loop over list, whose candidates score tops, ended with scan.
KeepsEarliestBest(list, tops, scan) ==
  (list # <<>> /\ \A j \in 1..StopAt(tops) : ~list[j].isNull) =>
    /\ ~scan.threw
    /\ scan.some
    /\ scan.index = Kept(tops)
    /\ SameScore(scan.score, tops[Kept(tops)])
    /\ (pc = "done" /\ result.found) => result.id = list[Kept(tops)].id

\* C24: an adapter examines the candidates in list order, scores each by its
\* best-scoring title variant, stops behind the first candidate that scores
\* 0.95 or more, and keeps the earliest candidate with the highest score
\* among those examined.
C24_EarliestBest ==
  KeepsEarliestBest(response.body.list,
                    [i \in DOMAIN response.body.list |->
                       TopVariant(title, response.body.list[i])],
                    ScanCandidates(title, response.body.list, 1, NoBestMatch))

\* A later candidate with a strictly higher score replaced the first one, and
\* the scan ended there.
C24_Witness ==
  /\ pc = "done"
  /\ title = S("One Piece")
  /\ response.body.list = <<Close, Exact>>
  /\ result.found
  /\ result.id = 1

\* The requests sent so far: every adapter call sends exactly one.
Requests == Len(calls)

\* C20: within one searchMetadata call each catalog of the strategy is
\* requested at most once, also after a request that failed, so that at most
\* 1 + (number of fallbacks) requests are sent.
C20_NoRetry ==
  /\ \A i, j \in DOMAIN calls : calls[i].catalog = calls[j].catalog => i = j
  /\ \A i \in DOMAIN calls :
       calls[i].catalog \in Range(PrimaryThenFallbacks)
  /\ Requests <= 1 + Len(SEARCH_STRATEGIES[mediaType].fallbacks)

\* Two requests failed, each catalog was asked once, the third one matched.
C20_Witness ==
  /\ pc = "done"
  /\ Requests = 3
  /\ calls[1].outcome = "http_error"
  /\ calls[2].outcome = "network_error"
  /\ calls[3].state = "match"

\* The call has returned a match or null.
Returned == pc = "done" /\ (result.found \/ result = Null)

\* A request is in flight: searchMetadata waits at an await.
Waiting == pc \in {"fetch", "json"}

\* A step taken while a request is in flight is that request's completion:
\* its response arrives, or the call it belongs to has ended, with an
\* outcome.  No step gives the request up or goes past it.
CompletesPending ==
  Waiting =>
    \/ pc = "fetch" /\ pc' = "json" /\ calls' = calls
    \/ /\ Len(calls') >= Len(calls)
       /\ calls'[Len(calls)].state # "pending"
       /\ calls'[Len(calls)].outcome = response'.outcome
       /\ response'.outcome \in FailureOutcomes \cup {"body"}

\* C23: when every catalog request completes in the end, every call of
\* searchMetadata that has sent a request returns in the end, a match or
\* null; and a waiting call moves on only by the completion of the request it
\* waits for, there being no timeout and no skipping of a pending catalog.
C23_Terminates == (Waiting ~> Returned) /\ [][CompletesPending]_vars

\* All three catalogs of the manga strategy failed and the call returned null.
C23_Witness ==
  /\ pc = "done"
  /\ result = Null
  /\ Len(calls) = 3
  /\ \A i \in DOMAIN calls : calls[i].outcome \in FailureOutcomes

\* The loop of the adapter ended with the best candidate scan, which scores
\* 0.7 or more.
BestReachesThreshold(scan) ==
  ~scan.threw /\ scan.some /\ ~Less(scan.score, MIN_MATCH_THRESHOLD)

\* The adapter answered last returned the candidate kept, and searchMetadata
\* returned it without a call to a further catalog.
AcceptedAndStopped(list, scan) ==
  /\ calls[Answered].state = "match"
  /\ Answered = Len(calls)
  /\ pc = "done"
  /\ result.found
  /\ result.id = list[scan.index].id
  /\ result.source = response.catalog

\* An address of a cover can be built for the candidate; searchAniList takes
\* the image fields as they are when the object that holds them is there.
HasCover(catalog, media) ==
  \/ media.cover = "url"
  \/ catalog = "anilist" /\ media.cover = "empty"

\* C27 as stated: whenever the best candidate of an adapter scores 0.7 or
\* more, the adapter returns it and the cascade stops at this catalog.
C27_AcceptAtThreshold_Original ==
  (response.outcome = "body" /\ response.body.list # <<>>) =>
    LET scan == ScanCandidates(cleanTitle, response.body.list, 1, NoBestMatch)
    IN BestReachesThreshold(scan) => AcceptedAndStopped(response.body.list, scan)

\* The amended statement for the body answered last and the outcome scan of
\* the adapter's loop over it.
AcceptsWithCover(list, scan) ==
  BestReachesThreshold(scan) =>
    IF HasCover(response.catalog, list[scan.index])
    THEN AcceptedAndStopped(list, scan)
    ELSE WentOn(Answered)

\* C27: whenever the best candidate of an adapter scores 0.7 or more and an
\* address of its cover can be built, the adapter returns it and the cascade
\* stops at this catalog; a best candidate without a cover is no match, and
\* the cascade goes on to the next fallback.
C27_AcceptAtThreshold ==
  (response.outcome = "body" /\ response.body.list # <<>>) =>
    AcceptsWithCover(response.body.list,
                     ScanCandidates(cleanTitle, response.body.list, 1, NoBestMatch))

\* The primary catalog's best candidate scores between 0.7 and 0.95; it is
\* returned, and the two fallbacks of the strategy are not called.
C27_Witness ==
  /\ pc = "done"
  /\ mediaType = "manga"
  /\ Len(calls) = 1
  /\ response.body.list = <<Longer, Close>>
  /\ result.found
  /\ result.id = 3

\* C28: every match that searchMetadata returns carries a title whose
\* similarity to the title searched for is 0.7 or more, whichever catalog
\* it comes from: the title handed back is the variant that earned the
\* accepted score.
C28_TitleEarnsScore ==
  (pc = "done" /\ result.found) =>
    AtLeast(calculateTitleSimilarity(cleanTitle, result.title), 7, 10)

\* Every title variant of every candidate of the list scores 0 against t.
AllVariantsScoreZero(t, list) ==
  \A i \in DOMAIN list : \A k \in DOMAIN AllTitles(list[i]) :
    calculateTitleSimilarity(t, AllTitles(list[i])[k]).num = 0

\* C29: a title that normalizes to the empty string never produces a match:
\* every variant of every candidate scores 0 against it, and searchMetadata
\* returns null.
C29_EmptyNeverMatches ==
  (pc # "call" /\ cleanTitle = <<>>) =>
    /\ response.outcome = "body" => AllVariantsScoreZero(cleanTitle, response.body.list)
    /\ pc = "done" => ~result.found

\* The title variants of the candidate that normalize to the empty string.
EmptyVariants(media) ==
  {k \in DOMAIN AllTitles(media) : normalizeTitle(AllTitles(media)[k]) = <<>>}

\* What holds of such a title: a variant scores 0 against it unless it
\* normalizes to the empty string too, and then it scores 1; and a match
\* comes from a candidate that has such a variant.
MatchesEmptyVariantsOnly ==
  (pc # "call" /\ cleanTitle = <<>>) =>
    /\ response.outcome = "body" =>
         \A i \in DOMAIN response.body.list :
           \A k \in DOMAIN AllTitles(response.body.list[i]) :
             SameScore(calculateTitleSimilarity(<<>>, AllTitles(response.body.list[i])[k]),
                       IF k \in EmptyVariants(response.body.list[i])
                       THEN Ratio(1, 1) ELSE Ratio(0, 1))
    /\ (pc = "done" /\ result.found) =>
         \E i \in DOMAIN response.body.list :
           /\ ~response.body.list[i].isNull
           /\ result.id = response.body.list[i].id
           /\ EmptyVariants(response.body.list[i]) # {}

-----------------------------------------------------------------------------
(* Claims about getMetadataById *)

\* The record the catalog answered with.
Answer1 == response.body.list[1]

\* C21: getMetadataById sends its request only to the catalog named by
\* source and sends no second one; and on a request that failed, a missing
\* record, a missing cover or an exception it returns null.
C21_ByIdOnly ==
  /\ Len(calls) <= 1
  /\ \A i \in DOMAIN calls : calls[i].catalog = source
  /\ pc # "threw"
  /\ pc = "done" =>
       /\ response.outcome \in FailureOutcomes => ~result.found
       /\ (response.outcome = "body" /\ Answer1.isNull) => ~result.found
       /\ (response.outcome = "body" /\ Answer1.cover # "url") => ~result.found

-----------------------------------------------------------------------------
(* Claims about the record store *)

\* The record that the call t created is in what the storage holds.
StoreHolds(t) ==
  /\ store # NothingStored
  /\ tasks[t].op = "createWork" => generateId(t) \in DOMAIN store[1].works
  /\ tasks[t].op = "createWaypoint" => generateId(t) \in DOMAIN store[1].waypoints

\* C30: the record store loses no completed write: whatever the
\* interleaving of concurrent createWork and createWaypoint calls, the work
\* or waypoint of every call that has returned is in the stored
\* waypoint_store.
C30_NoLostWrite ==
  \A t \in Calls : tasks[t].pc = "returned" => StoreHolds(t)
====
